---- MODULE Spec2Model ----
(***************************************************************************)
(* Model of meeting_transcriber/transcription/markdown_converter.py:       *)
(* convert_to_markdown, the transcript-to-document renderer, and of the    *)
(* files it reads and writes.                                              *)
(*                                                                         *)
(* Strings are sequences of one-character strings, so that joining,        *)
(* formatting and gluing are real concatenations.  Times are the floats    *)
(* of the source counted in tenths of a second (TicksPerSecond), so 1257   *)
(* stands for float("125.7").  An Optional value is a sequence of length   *)
(* 0 (None) or 1.  A path is a pair <<directory, file name>>.              *)
(***************************************************************************)
EXTENDS Integers, Sequences, FiniteSets, TLC

\* convert_to_markdown: its arguments, its locals, the value it returns
VARIABLES items, segments, speaker_timeline, markdown_lines, current_speaker,
          current_text, current_start, current_end, idx, pc, markdown_file,
          output_file, returned

\* the file system: the content of every path, None for a path with no file
VARIABLES fs

\* successive calls of convert_to_markdown: the number of the call in
\* progress, the file system when it was made, and the document the call
\* before it left
VARIABLES run, storage_before, previous

repeatVars == <<run, storage_before, previous>>

\* calls of convert_to_markdown in progress at the same time: for each call
\* its arguments, its position, its locals and what it has returned
VARIABLES calls

rendererVars == <<items, segments, speaker_timeline, markdown_lines, current_speaker,
                  current_text, current_start, current_end, idx, pc, markdown_file,
                  output_file, returned>>

\* one call of transcribe_audio: where it is, the objects of the bucket, the
\* transcription job as the service holds it, the statuses its polls have
\* returned, the client calls that have returned, and how the call ended
VARIABLES at, bucket, job, polled, api_calls, result, error

transcribeVars == <<at, bucket, job, polled, api_calls, result, error>>

\* one run of the command line or of a tool of the MCP server: the entry
\* point, its options, where the run is, what it has called and printed so
\* far, its locals, the exception it has caught, and how it ended
VARIABLES tool, options, stage, trace, transcript_data, audio_status, json_status,
          exception, outcome

toolVars == <<tool, options, stage, trace, transcript_data, audio_status, json_status,
              exception, outcome>>

\* what neither a step of a single call nor a further call touches
outsideRenderer == <<calls, transcribeVars, toolVars>>

\* what no step inside one call of convert_to_markdown touches
beyondRenderer == <<repeatVars, outsideRenderer>>

vars == <<rendererVars, fs, repeatVars, outsideRenderer>>

\* ---------------------------------------------------------------- bounds
MaxItems == 3
MaxSegments == 2
MaxRuns == 2
\* polls of the job status one call of transcribe_audio is followed through
MaxPolls == 3
\* speaker segments of the inputs that repeat an interval around another one
MaxRepeatedSegments == 3

\* tenths of a second per second: the resolution at which the float
\* timestamps of the inputs are represented
TicksPerSecond == 10

\* the Word items of the inputs: "hi" from 0.0 s to 41.9 s and "yo" from
\* 41.9 s to 125.7 s
PronunciationItems ==
    { [type |-> "pronunciation", start_time |-> 0, end_time |-> 419,
       content |-> <<"h", "i">>],
      [type |-> "pronunciation", start_time |-> 419, end_time |-> 1257,
       content |-> <<"y", "o">>] }

PunctuationMarks == { <<".">>, <<"?">> }

PunctuationItems ==
    { [type |-> "punctuation", content |-> p] : p \in PunctuationMarks }

ItemValues == PronunciationItems \cup PunctuationItems

\* the speaker segments of the inputs: one interval under two labels, an
\* interval that begins where that one ends, and a wide interval over both
SegmentValues ==
    { [start_time |-> 0, end_time |-> 419, speaker_label |-> <<"s", "0">>],
      [start_time |-> 0, end_time |-> 419, speaker_label |-> <<"s", "1">>],
      [start_time |-> 419, end_time |-> 1257, speaker_label |-> <<"s", "1">>],
      [start_time |-> 0, end_time |-> 1257, speaker_label |-> <<"s", "0">>] }

SeqsUpTo(S, n) == UNION { [1..k -> S] : k \in 0..n }

\* the output_file arguments: the usual transcript.json, a file of another
\* name beside it, and a file that is itself called transcript.md
OutputFiles ==
    { <<"meet", "transcript.json">>, <<"meet", "out.json">>,
      <<"other", "transcript.md">> }

Paths ==
    OutputFiles \cup { <<"meet", "transcript.md">>, <<"meet", "audio.mp3">>,
                       <<"meet", "video.mp4">> }

\* what a file left by an earlier program holds
OldContent == <<"o", "l", "d">>

\* ---------------------------------------------------------------- values
None == <<>>
Some(x) == <<x>>

S_Title == <<"#", " ", "M", "e", "e", "t", "i", "n", "g", " ",
             "T", "r", "a", "n", "s", "c", "r", "i", "p", "t">>
S_NlNl == <<"\n", "\n">>
S_Space == <<" ">>
S_SpeakerOpen == <<"[", "s", "p", "e", "a", "k", "e", "r", ":", " ">>
S_TimeOpen == <<"]", "[">>
S_TextOpen == <<"]", ":", " ">>

DigitChars == <<"0", "1", "2", "3", "4", "5", "6", "7", "8", "9">>

\* str(n) for n >= 0
RECURSIVE Decimal(_)
Decimal(n) ==
    IF n < 10 THEN <<DigitChars[n + 1]>>
    ELSE Decimal(n \div 10) \o <<DigitChars[(n % 10) + 1]>>

\* f"{n:02d}"
Format02d(n) ==
    IF n < 0 THEN <<"-">> \o Decimal(-n)
    ELSE IF n < 10 THEN <<"0">> \o Decimal(n)
    ELSE Decimal(n)

\* a variant of Seconds that rounds to the nearest second
SecondsRounded(t) ==
    ((t % (60 * TicksPerSecond)) + (TicksPerSecond \div 2)) \div TicksPerSecond

\* int(t // 60), int(t % 60) of a float t given in ticks
Minutes(t) == t \div (60 * TicksPerSecond)
Seconds(t) == (t % (60 * TicksPerSecond)) \div TicksPerSecond

\* f"{min:02d}:{sec:02d}"
FormatTime(t) == Format02d(Minutes(t)) \o <<":">> \o Format02d(Seconds(t))

\* a variant of Join that writes the separator after every part
RECURSIVE JoinTrailing(_, _)
JoinTrailing(sep, parts) ==
    IF Len(parts) = 0 THEN <<>>
    ELSE parts[1] \o sep \o JoinTrailing(sep, Tail(parts))

\* sep.join(parts)
RECURSIVE Join(_, _)
Join(sep, parts) ==
    IF Len(parts) = 0 THEN <<>>
    ELSE IF Len(parts) = 1 THEN parts[1]
    ELSE parts[1] \o sep \o Join(sep, Tail(parts))

\* the f-string appended to markdown_lines
FormatLine(speaker, text, start, end) ==
    S_SpeakerOpen \o speaker \o S_TimeOpen \o FormatTime(start) \o <<"-">>
      \o FormatTime(end) \o S_TextOpen \o Join(S_Space, text)

\* a mapping in which a key set again moves to the end
DictSetMovingToEnd(d, key, val) ==
    Append(SelectSeq(d, LAMBDA e : e.key # key), [key |-> key, val |-> val])

\* speaker_timeline[(start_time, end_time)] = speaker on an insertion-ordered dict
DictSet(d, key, val) ==
    IF \E k \in 1..Len(d) : d[k].key = key
    THEN [k \in 1..Len(d) |-> IF d[k].key = key THEN [key |-> key, val |-> val] ELSE d[k]]
    ELSE Append(d, [key |-> key, val |-> val])

RECURSIVE BuildSpeakerTimeline(_, _)
BuildSpeakerTimeline(d, segs) ==
    IF Len(segs) = 0 THEN d
    ELSE BuildSpeakerTimeline(
            DictSet(d, <<segs[1].start_time, segs[1].end_time>>, segs[1].speaker_label),
            Tail(segs))

\* the for/break scan over speaker_timeline.items()
FindSpeaker(timeline, item_start) ==
    LET hits == { k \in 1..Len(timeline) :
                    timeline[k].key[1] <= item_start /\ item_start <= timeline[k].key[2] }
    IN IF hits = {} THEN None
       ELSE Some(timeline[CHOOSE k \in hits : \A j \in hits : k <= j].val)

\* truthiness of current_speaker: not None and not ""
Truthy(opt) == opt # None /\ opt[1] # <<>>

\* the condition guarding both appends to markdown_lines
ShouldFlush(speaker, text, start, end) ==
    Truthy(speaker) /\ text # <<>> /\ start # None /\ end # None

\* a flush without the guard: it emits a line for whatever the run holds
FlushUnguarded(lines, speaker, text, start, end) ==
    Append(lines, FormatLine(IF speaker = None THEN <<>> ELSE speaker[1], text,
                             IF start = None THEN 0 ELSE start[1],
                             IF end = None THEN 0 ELSE end[1]))

\* if current_speaker and current_text and ...: markdown_lines.append(...)
Flush(lines, speaker, text, start, end) ==
    IF ShouldFlush(speaker, text, start, end)
    THEN Append(lines, FormatLine(speaker[1], text, start[1], end[1]))
    ELSE lines

\* a variant of Document that ends the title line without a blank line
DocumentNoBlankLine(lines) == S_Title \o <<"\n">> \o Join(S_NlNl, lines)

\* "# Meeting Transcript\n\n" followed by "\n\n".join(markdown_lines)
Document(lines) == S_Title \o S_NlNl \o Join(S_NlNl, lines)

\* path.parent and directory / name
Parent(path) == path[1]
Under(directory, name) == <<directory, name>>

\* a variant of MarkdownPath that writes beside output_file under its name
MarkdownPathOfName(path) == path

\* output_file.parent / "transcript.md"
MarkdownPath(path) == Under(Parent(path), "transcript.md")

\* a variant of OpenForWriting that keeps what the file holds (mode "a")
OpenForAppending(file) == IF file = None THEN <<>> ELSE file[1]

\* what a file holds once open(markdown_file, "w") has truncated it
OpenForWriting(file) == <<>>

EmptyFileSystem == [p \in Paths |-> None]

\* the file systems a call may find: no file at all, or old files everywhere
InitialFileSystems == { EmptyFileSystem, [p \in Paths |-> Some(OldContent)] }

\* ---------------------------------------------------------------- machine
\* the locals of convert_to_markdown on entry
Entry ==
    /\ speaker_timeline = <<>>
    /\ markdown_lines = <<>>
    /\ current_speaker = None
    /\ current_text = <<>>
    /\ current_start = None
    /\ current_end = None
    /\ idx = 1
    /\ pc = "timeline"
    /\ markdown_file = MarkdownPath(output_file)
    /\ returned = None

FirstCall ==
    /\ run = 1
    /\ storage_before = fs
    /\ previous = None

\* no concurrent calls
Alone == calls = <<>>

\* no entry point is running
NoTool ==
    /\ tool = "none"
    /\ options = <<>>
    /\ stage = "none"
    /\ trace = <<>>
    /\ transcript_data = None
    /\ audio_status = None
    /\ json_status = None
    /\ exception = None
    /\ outcome = None

\* no call of transcribe_audio
NotTranscribing ==
    /\ at = "idle"
    /\ bucket = <<>>
    /\ job = <<>>
    /\ polled = <<>>
    /\ api_calls = <<>>
    /\ result = None
    /\ error = None

Init ==
    /\ items \in SeqsUpTo(ItemValues, MaxItems)
    /\ segments \in SeqsUpTo(SegmentValues, MaxSegments)
    /\ output_file = <<"meet", "transcript.json">>
    /\ fs = EmptyFileSystem
    /\ Entry
    /\ FirstCall
    /\ Alone
    /\ NotTranscribing
    /\ NoTool

BuildTimeline ==
    /\ pc = "timeline"
    /\ speaker_timeline' = BuildSpeakerTimeline(<<>>, segments)
    /\ pc' = "items"
    /\ UNCHANGED <<items, segments, markdown_lines, current_speaker, current_text,
                   current_start, current_end, idx, markdown_file,
                   output_file, returned, fs, beyondRenderer>>

\* a variant of ProcessPronunciation that restarts the run's start time each
\* time a word is appended to the run
ProcessPronunciationRestart ==
    /\ pc = "items"
    /\ idx <= Len(items)
    /\ items[idx].type = "pronunciation"
    /\ LET item == items[idx]
           item_speaker == FindSpeaker(speaker_timeline, item.start_time)
       IN IF item_speaker # current_speaker
          THEN /\ markdown_lines' = Flush(markdown_lines, current_speaker, current_text,
                                          current_start, current_end)
               /\ current_speaker' = item_speaker
               /\ current_text' = <<item.content>>
               /\ current_start' = Some(item.start_time)
               /\ current_end' = Some(item.end_time)
          ELSE /\ current_text' = Append(current_text, item.content)
               /\ current_start' = Some(item.start_time)
               /\ current_end' = Some(item.end_time)
               /\ UNCHANGED <<markdown_lines, current_speaker>>
    /\ idx' = idx + 1
    /\ UNCHANGED <<items, segments, speaker_timeline, pc, markdown_file,
                   output_file, returned, fs, beyondRenderer>>

ProcessPronunciation ==
    /\ pc = "items"
    /\ idx <= Len(items)
    /\ items[idx].type = "pronunciation"
    /\ LET item == items[idx]
           item_speaker == FindSpeaker(speaker_timeline, item.start_time)
       IN IF item_speaker # current_speaker
          THEN /\ markdown_lines' = Flush(markdown_lines, current_speaker, current_text,
                                          current_start, current_end)
               /\ current_speaker' = item_speaker
               /\ current_text' = <<item.content>>
               /\ current_start' = Some(item.start_time)
               /\ current_end' = Some(item.end_time)
          ELSE /\ current_text' = Append(current_text, item.content)
               /\ current_end' = Some(item.end_time)
               /\ UNCHANGED <<markdown_lines, current_speaker, current_start>>
    /\ idx' = idx + 1
    /\ UNCHANGED <<items, segments, speaker_timeline, pc, markdown_file,
                   output_file, returned, fs, beyondRenderer>>

\* a variant of ProcessPunctuation in which a mark met with no text opens
\* the text
ProcessPunctuationOpeningText ==
    /\ pc = "items"
    /\ idx <= Len(items)
    /\ items[idx].type = "punctuation"
    /\ current_text' =
          IF current_text # <<>>
          THEN [current_text EXCEPT ![Len(current_text)] = @ \o items[idx].content]
          ELSE <<items[idx].content>>
    /\ idx' = idx + 1
    /\ UNCHANGED <<items, segments, speaker_timeline, markdown_lines, current_speaker,
                   current_start, current_end, pc, markdown_file,
                   output_file, returned, fs, beyondRenderer>>

\* a variant of ProcessPunctuation that adds the mark as a token of its own
ProcessPunctuationAsToken ==
    /\ pc = "items"
    /\ idx <= Len(items)
    /\ items[idx].type = "punctuation"
    /\ current_text' =
          IF current_text # <<>>
          THEN Append(current_text, items[idx].content)
          ELSE current_text
    /\ idx' = idx + 1
    /\ UNCHANGED <<items, segments, speaker_timeline, markdown_lines, current_speaker,
                   current_start, current_end, pc, markdown_file,
                   output_file, returned, fs, beyondRenderer>>

ProcessPunctuation ==
    /\ pc = "items"
    /\ idx <= Len(items)
    /\ items[idx].type = "punctuation"
    /\ current_text' =
          IF current_text # <<>>
          THEN [current_text EXCEPT ![Len(current_text)] = @ \o items[idx].content]
          ELSE current_text
    /\ idx' = idx + 1
    /\ UNCHANGED <<items, segments, speaker_timeline, markdown_lines, current_speaker,
                   current_start, current_end, pc, markdown_file,
                   output_file, returned, fs, beyondRenderer>>

FinalFlush ==
    /\ pc = "items"
    /\ idx > Len(items)
    /\ markdown_lines' = Flush(markdown_lines, current_speaker, current_text,
                               current_start, current_end)
    /\ pc' = "write"
    /\ UNCHANGED <<items, segments, speaker_timeline, current_speaker, current_text,
                   current_start, current_end, idx, markdown_file,
                   output_file, returned, fs, beyondRenderer>>

\* a variant of WriteFile that writes the document over output_file as well
WriteFileOverOutput ==
    /\ pc = "write"
    /\ fs' = [fs EXCEPT ![markdown_file] =
                  Some(OpenForWriting(fs[markdown_file]) \o Document(markdown_lines)),
                        ![output_file] =
                  Some(OpenForWriting(fs[output_file]) \o Document(markdown_lines))]
    /\ returned' = Some(markdown_file)
    /\ pc' = "done"
    /\ UNCHANGED <<items, segments, speaker_timeline, markdown_lines, current_speaker,
                   current_text, current_start, current_end, idx, markdown_file,
                   output_file, beyondRenderer>>

WriteFile ==
    /\ pc = "write"
    /\ fs' = [fs EXCEPT ![markdown_file] =
                  Some(OpenForWriting(fs[markdown_file]) \o Document(markdown_lines))]
    /\ returned' = Some(markdown_file)
    /\ pc' = "done"
    /\ UNCHANGED <<items, segments, speaker_timeline, markdown_lines, current_speaker,
                   current_text, current_start, current_end, idx, markdown_file,
                   output_file, beyondRenderer>>

Next ==
    \/ BuildTimeline
    \/ ProcessPronunciation
    \/ ProcessPunctuation
    \/ FinalFlush
    \/ WriteFile

Spec == Init /\ [][Next]_vars

\* the converter on up to MaxRepeatedSegments speaker segments and at most
\* one item
InitRepeated ==
    /\ items \in SeqsUpTo(ItemValues, 1)
    /\ segments \in SeqsUpTo(SegmentValues, MaxRepeatedSegments)
    /\ output_file = <<"meet", "transcript.json">>
    /\ fs = EmptyFileSystem
    /\ Entry
    /\ FirstCall
    /\ Alone
    /\ NotTranscribing
    /\ NoTool

SpecRepeated == InitRepeated /\ [][Next]_vars

\* ------------------------------------------- calls on a file system in use
\* A call may find files left by earlier programs, may be given any of the
\* output_file arguments, and may be followed by another call with the same
\* arguments.

InitFiles ==
    /\ items \in SeqsUpTo(ItemValues, MaxItems)
    /\ segments \in SeqsUpTo(SegmentValues, 1)
    /\ output_file \in OutputFiles
    /\ fs \in InitialFileSystems
    /\ Entry
    /\ FirstCall
    /\ Alone
    /\ NotTranscribing
    /\ NoTool

\* convert_to_markdown is called again with the arguments of the call that
\* has returned: its locals start afresh, the file system is as that call
\* left it
CallAgain ==
    /\ pc = "done"
    /\ run < MaxRuns
    /\ run' = run + 1
    /\ storage_before' = fs
    /\ previous' = fs[markdown_file]
    /\ speaker_timeline' = <<>>
    /\ markdown_lines' = <<>>
    /\ current_speaker' = None
    /\ current_text' = <<>>
    /\ current_start' = None
    /\ current_end' = None
    /\ idx' = 1
    /\ pc' = "timeline"
    /\ markdown_file' = MarkdownPath(output_file)
    /\ returned' = None
    /\ UNCHANGED <<items, segments, output_file, fs, outsideRenderer>>

NextFiles ==
    \/ BuildTimeline
    \/ ProcessPronunciation
    \/ ProcessPunctuation
    \/ FinalFlush
    \/ WriteFile
    \/ CallAgain

SpecFiles == InitFiles /\ [][NextFiles]_vars

\* ------------------------------------------------------- concurrent calls
\* Two calls of convert_to_markdown run at the same time on one file system.
\* What a call computes in memory is one step; its open, its writes and the
\* close that flushes them are steps of their own, since another call may
\* run between them.

\* the locals of the loop over items, before the first item
EmptyRun ==
    [markdown_lines |-> <<>>, current_speaker |-> None, current_text |-> <<>>,
     current_start |-> None, current_end |-> None]

\* one pass of the loop body over item
RenderItem(st, item, timeline) ==
    IF item.type = "pronunciation"
    THEN LET item_speaker == FindSpeaker(timeline, item.start_time)
         IN IF item_speaker # st.current_speaker
            THEN [markdown_lines |-> Flush(st.markdown_lines, st.current_speaker,
                                           st.current_text, st.current_start,
                                           st.current_end),
                  current_speaker |-> item_speaker,
                  current_text |-> <<item.content>>,
                  current_start |-> Some(item.start_time),
                  current_end |-> Some(item.end_time)]
            ELSE [st EXCEPT !.current_text = Append(@, item.content),
                            !.current_end = Some(item.end_time)]
    ELSE IF item.type = "punctuation" /\ st.current_text # <<>>
         THEN [st EXCEPT !.current_text[Len(st.current_text)] = @ \o item.content]
         ELSE st

RECURSIVE RenderItems(_, _, _)
RenderItems(st, its, timeline) ==
    IF its = <<>> THEN st
    ELSE RenderItems(RenderItem(st, its[1], timeline), Tail(its), timeline)

\* markdown_lines when the file is about to be written
RenderLines(its, segs) ==
    LET st == RenderItems(EmptyRun, its, BuildSpeakerTimeline(<<>>, segs))
    IN Flush(st.markdown_lines, st.current_speaker, st.current_text,
             st.current_start, st.current_end)

\* ------------------------------------------------- the two renderer copies
\* convert_to_markdown of meeting_transcriber/aws_transcribe.py, the older
\* copy. Its timeline, its lookup, its line format and its join are the
\* statements of the newer copy, so BuildSpeakerTimeline, FindSpeaker,
\* FormatLine and Join stand for both; its two guards are its own.

\* a variant of the older guard that wants more than one word in the run
LegacyShouldFlushLongRun(speaker, text) == Truthy(speaker) /\ Len(text) > 1

\* if current_speaker and current_text:
LegacyShouldFlush(speaker, text) == Truthy(speaker) /\ text # <<>>

\* the guarded markdown_lines.append(...) of the older copy
LegacyFlush(lines, speaker, text, start, end) ==
    IF LegacyShouldFlush(speaker, text)
    THEN Append(lines, FormatLine(speaker[1], text, start[1], end[1]))
    ELSE lines

\* one pass of the older copy's loop body over item
LegacyRenderItem(st, item, timeline) ==
    IF item.type = "pronunciation"
    THEN LET item_speaker == FindSpeaker(timeline, item.start_time)
         IN IF item_speaker # st.current_speaker
            THEN [markdown_lines |-> LegacyFlush(st.markdown_lines, st.current_speaker,
                                                 st.current_text, st.current_start,
                                                 st.current_end),
                  current_speaker |-> item_speaker,
                  current_text |-> <<item.content>>,
                  current_start |-> Some(item.start_time),
                  current_end |-> Some(item.end_time)]
            ELSE [st EXCEPT !.current_text = Append(@, item.content),
                            !.current_end = Some(item.end_time)]
    ELSE IF item.type = "punctuation" /\ st.current_text # <<>>
         THEN [st EXCEPT !.current_text[Len(st.current_text)] = @ \o item.content]
         ELSE st

RECURSIVE LegacyRenderItems(_, _, _)
LegacyRenderItems(st, its, timeline) ==
    IF its = <<>> THEN st
    ELSE LegacyRenderItems(LegacyRenderItem(st, its[1], timeline), Tail(its), timeline)

\* markdown_lines of the older copy after its final flush
LegacyRenderLines(its, segs) ==
    LET st == LegacyRenderItems(EmptyRun, its, BuildSpeakerTimeline(<<>>, segs))
    IN LegacyFlush(st.markdown_lines, st.current_speaker, st.current_text,
                   st.current_start, st.current_end)

\* f.write("# Meeting Transcript\n\n"); f.write("\n\n".join(markdown_lines))
LegacyDocument(lines) == S_Title \o S_NlNl \o Join(S_NlNl, lines)

Calls == {1, 2}

\* open(markdown_file, "w", encoding="utf-8") gives a file object of two
\* layers: the text layer collects up to ChunkSize bytes before it hands them
\* to the binary layer, whose buffer has the block size the file system
\* reports for the file
ChunkSize == 8192
BlockSize == 4096

\* a word as long as a chunk
LongWord == [k \in 1..ChunkSize |-> "a"]

\* a word whose line is longer than a block and shorter than a chunk, and
\* does not fit a chunk together with the title
MiddleWord == [k \in 1..(ChunkSize - 42) |-> "a"]

\* the transcription results the concurrent calls are given: no item, one
\* word of one speaker, two speakers with punctuation, one word whose line
\* does not fit a chunk, one whose line fits a chunk but not with the title,
\* and a word followed by an item that is neither a word nor punctuation
Transcripts ==
    { [items |-> <<>>, segments |-> <<>>],
      [items |-> << [type |-> "pronunciation", start_time |-> 0, end_time |-> 419,
                     content |-> <<"h", "i">>] >>,
       segments |-> << [start_time |-> 0, end_time |-> 1257,
                        speaker_label |-> <<"s", "0">>] >>],
      [items |-> << [type |-> "pronunciation", start_time |-> 0, end_time |-> 419,
                     content |-> <<"h", "i">>],
                    [type |-> "punctuation", content |-> <<"?">>],
                    [type |-> "pronunciation", start_time |-> 419, end_time |-> 1257,
                     content |-> <<"y", "o">>] >>,
       segments |-> << [start_time |-> 0, end_time |-> 419,
                        speaker_label |-> <<"s", "0">>],
                       [start_time |-> 419, end_time |-> 1257,
                        speaker_label |-> <<"s", "1">>] >>],
      [items |-> << [type |-> "pronunciation", start_time |-> 0, end_time |-> 419,
                     content |-> LongWord] >>,
       segments |-> << [start_time |-> 0, end_time |-> 1257,
                        speaker_label |-> <<"s", "0">>] >>],
      [items |-> << [type |-> "pronunciation", start_time |-> 0, end_time |-> 419,
                     content |-> MiddleWord] >>,
       segments |-> << [start_time |-> 0, end_time |-> 1257,
                        speaker_label |-> <<"s", "0">>] >>],
      [items |-> << [type |-> "pronunciation", start_time |-> 0, end_time |-> 419,
                     content |-> <<"h", "i">>],
                    [type |-> "other", content |-> <<"z", "z">>],
                    [type |-> "punctuation", content |-> <<".">>] >>,
       segments |-> << [start_time |-> 0, end_time |-> 1257,
                        speaker_label |-> <<"s", "0">>] >>] }

\* the byte a file shows where nothing was written before the data
Nul == "NUL"

\* the content of a file after data is written at offset pos: what lay
\* beyond the data stays
WriteAt(file, pos, data) ==
    LET padded == IF Len(file) >= pos THEN file
                  ELSE file \o [k \in 1..(pos - Len(file)) |-> Nul]
    IN SubSeq(padded, 1, pos) \o data
         \o SubSeq(padded, pos + Len(data) + 1, Len(padded))

\* an open file object h: pending is what the text layer holds, buffer what
\* the binary layer holds, todo the data of the write system calls the
\* statement under way has yet to make. The characters of a document are
\* ASCII, one byte each.
\* the binary layer calls write with data
RawWrite(h, data) == [h EXCEPT !.todo = Append(@, data)]

\* the binary layer writes out its buffer
BufferedFlush(h) ==
    IF h.buffer = <<>> THEN h ELSE RawWrite([h EXCEPT !.buffer = <<>>], h.buffer)

\* the binary layer takes data: it keeps what fits its buffer, and otherwise
\* writes out the buffer and then the data, unless the data fits a buffer
BufferedWrite(h, data) ==
    IF Len(data) <= BlockSize - Len(h.buffer)
    THEN [h EXCEPT !.buffer = @ \o data]
    ELSE IF Len(data) > BlockSize
         THEN RawWrite(BufferedFlush(h), data)
         ELSE [BufferedFlush(h) EXCEPT !.buffer = data]

\* the text layer hands what it holds to the binary layer
TextFlush(h) ==
    IF h.pending = <<>> THEN h ELSE BufferedWrite([h EXCEPT !.pending = <<>>], h.pending)

\* f.write(data): the text layer never holds more than a chunk, and hands
\* on what it holds once that is a chunk
TextWrite(h, data) ==
    LET room == IF Len(h.pending) + Len(data) > ChunkSize THEN TextFlush(h) ELSE h
        held == [room EXCEPT !.pending = @ \o data]
    IN IF Len(held.pending) >= ChunkSize THEN TextFlush(held) ELSE held

\* f.close(): both layers are flushed
Close(h) == BufferedFlush(TextFlush(h))

\* the file object of call c between two statements
Handle(c) ==
    [pending |-> calls[c].pending, buffer |-> calls[c].buffer, todo |-> <<>>]

\* the file object of call c becomes h and the call goes on at next, once
\* the system calls of h.todo are made
WithHandle(c, h, next) ==
    calls' = [calls EXCEPT ![c].pc = next, ![c].pending = h.pending,
                           ![c].buffer = h.buffer, ![c].todo = h.todo]

InitConcurrent ==
    /\ items = <<>>
    /\ segments = <<>>
    /\ output_file = <<"meet", "transcript.json">>
    /\ fs \in InitialFileSystems
    /\ Entry
    /\ FirstCall
    /\ calls \in [Calls -> [transcript : Transcripts, output_file : OutputFiles,
                            pc : {"start"}, markdown_lines : {<<>>},
                            pending : {<<>>}, buffer : {<<>>}, todo : {<<>>},
                            pos : {0}, returned : {None}]]
    /\ calls[1].transcript # calls[2].transcript
    /\ NotTranscribing
    /\ NoTool

\* lines 9-89: everything a call does before it opens the file
RenderInMemory(c) ==
    /\ calls[c].pc = "start"
    /\ calls' = [calls EXCEPT ![c].pc = "rendered",
                              ![c].markdown_lines =
                                  RenderLines(calls[c].transcript.items,
                                              calls[c].transcript.segments)]
    /\ UNCHANGED <<rendererVars, fs, repeatVars, transcribeVars, toolVars>>

\* open(markdown_file, "w"): the file exists and is empty, the file object
\* holds nothing and its descriptor stands at the start of the file
OpenFile(c) ==
    /\ calls[c].pc = "rendered"
    /\ fs' = [fs EXCEPT ![MarkdownPath(calls[c].output_file)] =
                  Some(OpenForWriting(fs[MarkdownPath(calls[c].output_file)]))]
    /\ calls' = [calls EXCEPT ![c].pc = "open", ![c].pending = <<>>,
                              ![c].buffer = <<>>, ![c].todo = <<>>, ![c].pos = 0]
    /\ UNCHANGED <<rendererVars, repeatVars, transcribeVars, toolVars>>

\* f.write("# Meeting Transcript\n\n")
WriteTitle(c) ==
    /\ calls[c].pc = "open"
    /\ WithHandle(c, TextWrite(Handle(c), S_Title \o S_NlNl), "titled")
    /\ UNCHANGED <<rendererVars, fs, repeatVars, transcribeVars, toolVars>>

\* f.write("\n\n".join(markdown_lines))
WriteLines(c) ==
    /\ calls[c].pc = "titled"
    /\ calls[c].todo = <<>>
    /\ WithHandle(c, TextWrite(Handle(c), Join(S_NlNl, calls[c].markdown_lines)),
                  "written")
    /\ UNCHANGED <<rendererVars, fs, repeatVars, transcribeVars, toolVars>>

\* leaving the with block closes the file, which writes what the file object
\* still holds
CloseFile(c) ==
    /\ calls[c].pc = "written"
    /\ calls[c].todo = <<>>
    /\ WithHandle(c, Close(Handle(c)), "closed")
    /\ UNCHANGED <<rendererVars, fs, repeatVars, transcribeVars, toolVars>>

\* a write system call that goes to the file of the first call, as if the
\* calls shared one markdown_file
WriteToFirst(c) ==
    /\ calls[c].todo # <<>>
    /\ LET target == MarkdownPath(calls[1].output_file)
           file == IF fs[target] = None THEN <<>> ELSE fs[target][1]
       IN fs' = [fs EXCEPT ![target] =
                     Some(WriteAt(file, calls[c].pos, Head(calls[c].todo)))]
    /\ calls' = [calls EXCEPT ![c].pos = @ + Len(Head(calls[c].todo)),
                              ![c].todo = Tail(@)]
    /\ UNCHANGED <<rendererVars, repeatVars, transcribeVars, toolVars>>

\* one write system call of a statement: the data goes to the file at the
\* offset of the descriptor of the call, and the offset moves past it. The
\* other call may run before the statement makes its next system call.
Write(c) ==
    /\ calls[c].todo # <<>>
    /\ LET target == MarkdownPath(calls[c].output_file)
       IN fs' = [fs EXCEPT ![target] =
                     Some(WriteAt(fs[target][1], calls[c].pos, Head(calls[c].todo)))]
    /\ calls' = [calls EXCEPT ![c].pos = @ + Len(Head(calls[c].todo)),
                              ![c].todo = Tail(@)]
    /\ UNCHANGED <<rendererVars, repeatVars, transcribeVars, toolVars>>

\* return markdown_file
ReturnPath(c) ==
    /\ calls[c].pc = "closed"
    /\ calls[c].todo = <<>>
    /\ calls' = [calls EXCEPT ![c].pc = "done",
                              ![c].returned = Some(MarkdownPath(calls[c].output_file))]
    /\ UNCHANGED <<rendererVars, fs, repeatVars, transcribeVars, toolVars>>

NextConcurrent ==
    \/ \E c \in Calls : RenderInMemory(c)
    \/ \E c \in Calls : OpenFile(c)
    \/ \E c \in Calls : WriteTitle(c)
    \/ \E c \in Calls : WriteLines(c)
    \/ \E c \in Calls : CloseFile(c)
    \/ \E c \in Calls : Write(c)
    \/ \E c \in Calls : ReturnPath(c)

SpecConcurrent == InitConcurrent /\ [][NextConcurrent]_vars

\* ------------------------------------------------------- transcribe_audio
\* One call transcribe_audio(s3_client, transcribe_client, audio_file=...,
\* bucket=..., job_name=...). The transcription service runs beside the call
\* and moves the job to a terminal status on its own.

audio_file == <<"meet", "audio.mp3">>
job_name == "job1"

AudioContent == <<"m", "p", "3">>

\* s3_key = f"audio/{job_name}/{audio_file.name}"
S3Key(name, file) == <<"audio/", name, "/", file[2]>>
\* output_key = f"transcripts/{job_name}.json"
OutputKey(name) == <<"transcripts/", name, ".json">>

\* an object some other run has left in the bucket
OtherKey == <<"audio/", "job0", "/", "audio.mp3">>

Keys == { S3Key(job_name, audio_file), OutputKey(job_name), OtherKey }

\* audio_file.parent / "transcript.json"
TranscriptPath(file) == Under(Parent(file), "transcript.json")

\* the transcript documents the service may write, each with the value it
\* denotes
ServiceResults ==
    { [text |-> <<"[", "]">>, value |-> <<>>],
      [text |-> <<"[", "7", "]">>, value |-> <<7>>],
      [text |-> <<"[", "4", "1", ",", " ", "9", "]", "\n">>, value |-> <<41, 9>>] }

S_TestFailure == <<"T", "e", "s", "t", " ", "f", "a", "i", "l", "u", "r", "e">>
S_UnknownError == <<"U", "n", "k", "n", "o", "w", "n", " ", "e", "r", "r", "o", "r">>
S_TranscriptionFailed ==
    <<"T", "r", "a", "n", "s", "c", "r", "i", "p", "t", "i", "o", "n", " ",
      "f", "a", "i", "l", "e", "d", ":", " ">>

\* what the job may carry as FailureReason
FailureReasons == { None, Some(S_TestFailure) }

\* .get("FailureReason", "Unknown error")
GetFailureReason(j) ==
    IF j.failure_reason = None THEN S_UnknownError ELSE j.failure_reason[1]

RuntimeError(message) == [type |-> "RuntimeError", message |-> message]
ClientError == [type |-> "ClientError", message |-> <<>>]

\* json.load on a document that is an array of numbers
IsBlank(c) == c \in {" ", "\n"}

RECURSIVE JsonInt(_)
JsonInt(s) ==
    IF Len(s) = 0 THEN 0
    ELSE 10 * JsonInt(SubSeq(s, 1, Len(s) - 1))
         + (CHOOSE d \in 0..9 : DigitChars[d + 1] = s[Len(s)])

RECURSIVE JsonElements(_)
JsonElements(s) ==
    IF s = <<>> THEN <<>>
    ELSE LET stop == IF \E k \in 1..Len(s) : s[k] = ","
                     THEN CHOOSE k \in 1..Len(s) :
                              s[k] = "," /\ \A j \in 1..(k - 1) : s[j] # ","
                     ELSE Len(s) + 1
         IN <<JsonInt(SubSeq(s, 1, stop - 1))>>
            \o JsonElements(SubSeq(s, stop + 1, Len(s)))

\* a json.load that takes the document for a single number
JsonLoadScalar(text) ==
    LET s == SelectSeq(text, LAMBDA c : ~IsBlank(c))
    IN <<JsonInt(SelectSeq(s, LAMBDA c : c \notin {"[", "]", ","}))>>

JsonLoad(text) ==
    LET s == SelectSeq(text, LAMBDA c : ~IsBlank(c))
    IN JsonElements(SubSeq(s, 2, Len(s) - 1))

InitTranscribe ==
    /\ items = <<>>
    /\ segments = <<>>
    /\ output_file = TranscriptPath(audio_file)
    /\ fs \in { [p \in Paths |-> IF p = audio_file THEN Some(AudioContent) ELSE None],
                [p \in Paths |-> IF p = audio_file THEN Some(AudioContent)
                                 ELSE Some(OldContent)] }
    /\ Entry
    /\ FirstCall
    /\ Alone
    /\ at = "upload"
    /\ bucket \in { [k \in Keys |-> None],
                    [k \in Keys |-> IF k = OtherKey THEN Some(OldContent) ELSE None] }
    /\ job = [status |-> "NONE", failure_reason |-> None, transcript |-> None]
    /\ polled = <<>>
    /\ api_calls = <<>>
    /\ result = None
    /\ error = None
    /\ NoTool

\* s3_client.upload_file(str(audio_file), bucket, s3_key)
UploadAudio ==
    /\ at = "upload"
    /\ bucket' = [bucket EXCEPT ![S3Key(job_name, audio_file)] = fs[audio_file]]
    /\ api_calls' = Append(api_calls, "upload_file")
    /\ at' = "start"
    /\ UNCHANGED <<rendererVars, fs, repeatVars, calls, toolVars, job, polled, result, error>>

\* transcribe_client.start_transcription_job(...)
StartJob ==
    /\ at = "start"
    /\ job' = [job EXCEPT !.status = "QUEUED"]
    /\ api_calls' = Append(api_calls, "start_transcription_job")
    /\ at' = "poll"
    /\ UNCHANGED <<rendererVars, fs, repeatVars, calls, toolVars, bucket, polled, result, error>>

\* the service takes the job up
JobProgresses ==
    /\ job.status = "QUEUED"
    /\ job' = [job EXCEPT !.status = "IN_PROGRESS"]
    /\ UNCHANGED <<rendererVars, fs, repeatVars, calls, toolVars, at, bucket, polled, api_calls,
                   result, error>>

\* the service finishes the job and puts the transcript under output_key
JobCompletes ==
    /\ job.status \in {"QUEUED", "IN_PROGRESS"}
    /\ \E r \in ServiceResults :
          /\ job' = [job EXCEPT !.status = "COMPLETED", !.transcript = Some(r)]
          /\ bucket' = [bucket EXCEPT ![OutputKey(job_name)] = Some(r.text)]
    /\ UNCHANGED <<rendererVars, fs, repeatVars, calls, toolVars, at, polled, api_calls,
                   result, error>>

\* the service gives the job up, with or without a reason
JobFails ==
    /\ job.status \in {"QUEUED", "IN_PROGRESS"}
    /\ \E reason \in FailureReasons :
          job' = [job EXCEPT !.status = "FAILED", !.failure_reason = reason]
    /\ UNCHANGED <<rendererVars, fs, repeatVars, calls, toolVars, at, bucket, polled, api_calls,
                   result, error>>

\* a pass of the loop that goes on polling when the job has failed
PollJobThroughFailure ==
    /\ at = "poll"
    /\ Len(polled) < MaxPolls
    /\ polled' = Append(polled, job.status)
    /\ api_calls' = Append(api_calls, "get_transcription_job")
    /\ IF job.status = "COMPLETED"
       THEN at' = "download" /\ error' = error
       ELSE at' = "poll" /\ error' = error
    /\ UNCHANGED <<rendererVars, fs, repeatVars, calls, toolVars, bucket, job, result>>

\* a loop that gives up when the job is still running at the second poll
PollJobGivingUp ==
    /\ at = "poll"
    /\ Len(polled) < MaxPolls \/ job.status \in {"COMPLETED", "FAILED"}
    /\ polled' = Append(polled, job.status)
    /\ api_calls' = Append(api_calls, "get_transcription_job")
    /\ IF job.status = "COMPLETED"
       THEN at' = "download" /\ error' = error
       ELSE IF job.status = "FAILED"
            THEN /\ at' = "raised"
                 /\ error' = Some(RuntimeError(S_TranscriptionFailed
                                               \o GetFailureReason(job)))
            ELSE IF polled # <<>>
                 THEN /\ at' = "raised"
                      /\ error' = Some(RuntimeError(<<"t", "i", "m", "e", "o", "u", "t">>))
                 ELSE at' = "poll" /\ error' = error
    /\ UNCHANGED <<rendererVars, fs, repeatVars, calls, toolVars, bucket, job, result>>

\* one pass of the while loop: get_transcription_job, then break, raise or
\* sleep; the call is followed through MaxPolls polls of a running job, and
\* through the poll that finds the job ended whenever it comes
PollJob ==
    /\ at = "poll"
    /\ Len(polled) < MaxPolls \/ job.status \in {"COMPLETED", "FAILED"}
    /\ polled' = Append(polled, job.status)
    /\ api_calls' = Append(api_calls, "get_transcription_job")
    /\ IF job.status = "COMPLETED"
       THEN at' = "download" /\ error' = error
       ELSE IF job.status = "FAILED"
            THEN /\ at' = "raised"
                 /\ error' = Some(RuntimeError(S_TranscriptionFailed
                                               \o GetFailureReason(job)))
            ELSE at' = "poll" /\ error' = error
    /\ UNCHANGED <<rendererVars, fs, repeatVars, calls, toolVars, bucket, job, result>>

\* s3_client.download_file(bucket, output_key, str(output_file))
DownloadTranscript ==
    /\ at = "download"
    /\ bucket[OutputKey(job_name)] # None
    /\ fs' = [fs EXCEPT ![TranscriptPath(audio_file)] = bucket[OutputKey(job_name)]]
    /\ api_calls' = Append(api_calls, "download_file")
    /\ at' = "delete_audio"
    /\ UNCHANGED <<rendererVars, repeatVars, calls, toolVars, bucket, job, polled, result, error>>

\* s3_client.delete_object(Bucket=bucket, Key=s3_key)
DeleteAudioObject ==
    /\ at = "delete_audio"
    /\ bucket' = [bucket EXCEPT ![S3Key(job_name, audio_file)] = None]
    /\ api_calls' = Append(api_calls, "delete_object")
    /\ at' = "delete_transcript"
    /\ UNCHANGED <<rendererVars, fs, repeatVars, calls, toolVars, job, polled, result, error>>

\* s3_client.delete_object(Bucket=bucket, Key=output_key)
DeleteTranscriptObject ==
    /\ at = "delete_transcript"
    /\ bucket' = [bucket EXCEPT ![OutputKey(job_name)] = None]
    /\ api_calls' = Append(api_calls, "delete_object")
    /\ at' = "load"
    /\ UNCHANGED <<rendererVars, fs, repeatVars, calls, toolVars, job, polled, result, error>>

\* with open(output_file) as f: return json.load(f)
LoadTranscript ==
    /\ at = "load"
    /\ result' = Some(JsonLoad(fs[TranscriptPath(audio_file)][1]))
    /\ at' = "returned"
    /\ UNCHANGED <<rendererVars, fs, repeatVars, calls, toolVars, bucket, job, polled, api_calls,
                   error>>

\* a call that removes the audio object when a client call raises, as a
\* finally clause would
ClientRaisesCleaningUp ==
    /\ at \in {"upload", "start", "poll", "download", "delete_audio", "delete_transcript"}
    /\ error' = Some(ClientError)
    /\ at' = "raised"
    /\ bucket' = [bucket EXCEPT ![S3Key(job_name, audio_file)] = None]
    /\ api_calls' = Append(api_calls, "delete_object")
    /\ UNCHANGED <<rendererVars, fs, repeatVars, calls, toolVars, job, polled, result>>

\* a client call raises instead of returning
ClientRaises ==
    /\ at \in {"upload", "start", "poll", "download", "delete_audio", "delete_transcript"}
    /\ error' = Some(ClientError)
    /\ at' = "raised"
    /\ UNCHANGED <<rendererVars, fs, repeatVars, calls, toolVars, bucket, job, polled, api_calls,
                   result>>

NextTranscribe ==
    \/ UploadAudio
    \/ StartJob
    \/ JobProgresses
    \/ JobCompletes
    \/ JobFails
    \/ PollJob
    \/ DownloadTranscript
    \/ DeleteAudioObject
    \/ DeleteTranscriptObject
    \/ LoadTranscript
    \/ ClientRaises

SpecTranscribe == InitTranscribe /\ [][NextTranscribe]_vars

\* a client call that is made returns or raises, and the service brings every
\* job to COMPLETED or FAILED
SpecTranscribeFair ==
    /\ SpecTranscribe
    /\ WF_vars(UploadAudio \/ StartJob \/ PollJob \/ DownloadTranscript
                 \/ DeleteAudioObject \/ DeleteTranscriptObject \/ LoadTranscript)
    /\ WF_vars(JobCompletes \/ JobFails)

\* ------------------------------------------------- command line and tools
\* One run of an entry point: the command main of cli.py, the command main of
\* the older program aws_transcribe.py, or one of the tools extract_audio,
\* transcribe_audio and transcribe_video of mcp.py. trace is what the run has
\* called and printed so far, in order: boto3.client and the functions of the
\* package when they are called, a call of an S3 or Transcribe client when it
\* has returned, a message when it has been printed or sent. The commands are
\* synchronous. A tool is a coroutine: it gives the event loop a turn at every
\* await, so a step of a tool runs from one await to the next one, and stage
\* "await N" is the tool suspended at the await of line N of mcp.py, whose
\* message is not sent yet.

video_file == <<"meet", "video.mp4">>
VideoContent == <<"m", "p", "4">>

Tools == {"main", "legacy_main", "extract_audio", "transcribe_audio", "transcribe_video"}

\* --audio-name / audio_name: the default, and the name of the markdown
\* transcript. Whether extract_audio returns or raises is up to ffmpeg,
\* whatever the name.
AudioNames == {"audio.mp3", "transcript.md"}

\* the file a tool is called on
InputOf(t) == IF t = "transcribe_audio" THEN audio_file ELSE video_file

\* video_file.parent / audio_name
AudioPath == Under(Parent(video_file), options.audio_name)

\* the client calls of a call of transcribe_audio that polls n times
ClientCalls(n) ==
    <<"upload_file", "start_transcription_job">>
        \o [k \in 1..n |-> "get_transcription_job"]
        \o <<"download_file", "delete_object", "delete_object">>

\* what a call of transcribe_audio can do: the client calls that returned,
\* the document download_file wrote if it returned, and the value the call
\* returned if it did not raise
TranscribeCalls ==
    { [made |-> ClientCalls(n), text |-> Some(r.text), value |-> Some(r.value)] :
          n \in 1..MaxPolls, r \in ServiceResults }
    \cup UNION { { [made |-> SubSeq(ClientCalls(n), 1, k),
                    text |-> IF k >= n + 3 THEN Some(r.text) ELSE None,
                    value |-> None] : k \in 0..(n + 4) } :
                 n \in 1..MaxPolls, r \in ServiceResults }

\* the file system once a call of transcribe_audio on file has done c
AfterTranscribe(file, c) ==
    IF c.text = None THEN fs ELSE [fs EXCEPT ![TranscriptPath(file)] = c.text]

\* json.dump of an array of numbers
RECURSIVE JsonDumpElements(_)
JsonDumpElements(value) ==
    IF value = <<>> THEN <<>>
    ELSE IF Len(value) = 1 THEN Decimal(value[1])
    ELSE Decimal(value[1]) \o <<",", " ">> \o JsonDumpElements(Tail(value))

JsonDump(value) == <<"[">> \o JsonDumpElements(value) \o <<"]">>

\* the transcription result a transcript document of ServiceResults stands
\* for: none of its words, its first word, or all of them
TranscriptOf(value) ==
    CHOOSE t \in Transcripts :
        Len(t.items) = (IF Len(value) = 2 THEN 3 ELSE Len(value))

RenderedDocument(value) ==
    Document(RenderLines(TranscriptOf(value).items, TranscriptOf(value).segments))

Exit(code) == [kind |-> "exit", code |-> code]
Raised(type, message) == [kind |-> "raised", type |-> type, message |-> message]
Returned(path) == [kind |-> "returned", status |-> "success", path |-> path]

\* the dict transcribe_audio_tool returns: the transcript itself and no path
\* (its figures and its job name are left out)
ReturnedData(data) ==
    [kind |-> "returned", status |-> "success", transcript_data |-> data]

\* the directory before the run: with or without the input files, with or
\* without the files of an earlier run
ToolFileSystems ==
    { [p \in Paths |-> None],
      [p \in Paths |-> IF p = video_file THEN Some(VideoContent) ELSE None],
      [p \in Paths |-> IF p = video_file THEN Some(VideoContent)
                       ELSE IF p = audio_file THEN Some(AudioContent) ELSE None],
      [p \in Paths |-> IF p = video_file THEN Some(VideoContent) ELSE Some(OldContent)],
      [p \in Paths |-> IF p = video_file THEN None ELSE Some(OldContent)] }

InitTools ==
    /\ items = <<>>
    /\ segments = <<>>
    /\ output_file = TranscriptPath(audio_file)
    /\ fs \in ToolFileSystems
    /\ Entry
    /\ FirstCall
    /\ Alone
    /\ NotTranscribing
    /\ tool \in Tools
    /\ options \in [audio_name : AudioNames, cleanup_audio : BOOLEAN,
                    cleanup_json : BOOLEAN]
    /\ stage = "start"
    /\ trace = <<>>
    /\ transcript_data = None
    /\ audio_status = None
    /\ json_status = None
    /\ exception = None
    /\ outcome = None

otherVars == <<rendererVars, repeatVars, calls, transcribeVars, tool, options>>

\* the run goes on to stage s
Goto(s, events) ==
    /\ stage' = s
    /\ trace' = trace \o events
    /\ outcome' = outcome

\* the run ends
End(events, how) ==
    /\ stage' = "done"
    /\ trace' = trace \o events
    /\ outcome' = Some(how)

\* ---- cli.py, main

\* click.Path(exists=True) on the argument video_file
MainParse ==
    /\ tool = "main" /\ stage = "start"
    /\ IF fs[video_file] = None THEN End(<<>>, Exit(2)) ELSE Goto("extract", <<>>)
    /\ UNCHANGED <<otherVars, fs, transcript_data, audio_status, json_status, exception>>

\* an extraction whose failure is printed and then passed over
MainExtractSwallowing ==
    /\ tool = "main" /\ stage = "extract"
    /\ \E ok \in BOOLEAN :
          /\ IF ok
             THEN /\ fs' = [fs EXCEPT ![AudioPath] = Some(AudioContent)]
                  /\ Goto("transcribe", <<"extract_audio">>)
             ELSE /\ fs' = fs
                  /\ Goto("transcribe", <<"extract_audio", "error">>)
    /\ UNCHANGED <<otherVars, transcript_data, audio_status, json_status, exception>>

\* audio_file = extract_audio_cli(video_file, audio_name)
MainExtract ==
    /\ tool = "main" /\ stage = "extract"
    /\ \E ok \in BOOLEAN :
          /\ IF ok
             THEN /\ fs' = [fs EXCEPT ![AudioPath] = Some(AudioContent)]
                  /\ Goto("transcribe", <<"extract_audio">>)
             ELSE /\ fs' = fs
                  /\ End(<<"extract_audio", "error", "error">>, Exit(1))
    /\ UNCHANGED <<otherVars, transcript_data, audio_status, json_status, exception>>

\* output_file = transcribe_audio_cli(...): the two clients, made before the
\* try of lines 51-96, so that a client that cannot be made is reported once,
\* by main; then the upload, the call of transcribe_audio and json.dump of
\* what it returns, whose failures are reported twice
MainTranscribe ==
    /\ tool = "main" /\ stage = "transcribe"
    /\ \/ /\ End(<<"boto3.client", "error">>, Exit(1))
          /\ fs' = fs
       \/ /\ End(<<"boto3.client", "boto3.client", "error">>, Exit(1))
          /\ fs' = fs
       \/ /\ End(<<"boto3.client", "boto3.client", "error", "error">>, Exit(1))
          /\ fs' = fs
       \/ \E c \in TranscribeCalls :
             /\ c.value = None
             /\ End(<<"boto3.client", "boto3.client", "upload_file", "transcribe_audio">>
                        \o c.made \o <<"error", "error">>,
                    Exit(1))
             /\ fs' = AfterTranscribe(AudioPath, c)
       \/ \E c \in TranscribeCalls :
             /\ c.value # None
             /\ Goto("render",
                     <<"boto3.client", "boto3.client", "upload_file", "transcribe_audio">>
                        \o c.made \o <<"json.dump">>)
             /\ fs' = [fs EXCEPT ![TranscriptPath(AudioPath)] = Some(JsonDump(c.value[1]))]
    /\ UNCHANGED <<otherVars, transcript_data, audio_status, json_status, exception>>

\* a main that converts the transcript a second time
MainRenderTwice ==
    /\ tool = "main" /\ stage = "render"
    /\ transcript_data' = Some(JsonLoad(fs[TranscriptPath(AudioPath)][1]))
    /\ fs' = [fs EXCEPT ![MarkdownPath(TranscriptPath(AudioPath))] =
                  Some(RenderedDocument(JsonLoad(fs[TranscriptPath(AudioPath)][1])))]
    /\ Goto("summary", <<"json.load", "convert_to_markdown", "convert_to_markdown">>)
    /\ UNCHANGED <<otherVars, audio_status, json_status, exception>>

\* json.load of output_file, then convert_to_markdown
MainRender ==
    /\ tool = "main" /\ stage = "render"
    /\ transcript_data' = Some(JsonLoad(fs[TranscriptPath(AudioPath)][1]))
    /\ fs' = [fs EXCEPT ![MarkdownPath(TranscriptPath(AudioPath))] =
                  Some(RenderedDocument(JsonLoad(fs[TranscriptPath(AudioPath)][1])))]
    /\ Goto("summary", <<"json.load", "convert_to_markdown">>)
    /\ UNCHANGED <<otherVars, audio_status, json_status, exception>>

\* "Transcription Complete!", the figures and the preview
MainSummary ==
    /\ tool = "main" /\ stage = "summary"
    /\ Goto("cleanup_audio", <<"complete">>)
    /\ UNCHANGED <<otherVars, fs, transcript_data, audio_status, json_status, exception>>

MainCleanupAudio ==
    /\ tool = "main" /\ stage = "cleanup_audio"
    /\ IF options.cleanup_audio /\ fs[AudioPath] # None
       THEN /\ fs' = [fs EXCEPT ![AudioPath] = None]
            /\ audio_status' = Some("removed")
            /\ Goto("cleanup_json", <<"unlink audio_file">>)
       ELSE /\ fs' = fs
            /\ audio_status' = Some("preserved")
            /\ Goto("cleanup_json", <<>>)
    /\ UNCHANGED <<otherVars, transcript_data, json_status, exception>>

MainCleanupJson ==
    /\ tool = "main" /\ stage = "cleanup_json"
    /\ IF options.cleanup_json /\ fs[TranscriptPath(AudioPath)] # None
       THEN /\ fs' = [fs EXCEPT ![TranscriptPath(AudioPath)] = None]
            /\ json_status' = Some("removed")
            /\ Goto("panel", <<"unlink output_file">>)
       ELSE /\ fs' = fs
            /\ json_status' = Some("preserved")
            /\ Goto("panel", <<>>)
    /\ UNCHANGED <<otherVars, transcript_data, audio_status, exception>>

\* the panel "Success!" with the statuses of the two files
MainSuccess ==
    /\ tool = "main" /\ stage = "panel"
    /\ End(<<"success">>, Exit(0))
    /\ UNCHANGED <<otherVars, fs, transcript_data, audio_status, json_status, exception>>

\* ---- aws_transcribe.py, main of the older program

LegacyRenderedDocument(value) ==
    LegacyDocument(LegacyRenderLines(TranscriptOf(value).items,
                                     TranscriptOf(value).segments))

\* click.Path(exists=True) on the argument video_file
LegacyMainParse ==
    /\ tool = "legacy_main" /\ stage = "start"
    /\ IF fs[video_file] = None THEN End(<<>>, Exit(2)) ELSE Goto("extract", <<>>)
    /\ UNCHANGED <<otherVars, fs, transcript_data, audio_status, json_status, exception>>

\* audio_file = extract_audio(video_file, audio_name): extract_audio catches
\* ffmpeg.Error alone, prints it and raises click.Abort, which main prints
\* again; anything else ffmpeg.run raises (the executable is missing) passes
\* through extract_audio and is printed by main only
LegacyMainExtract ==
    /\ tool = "legacy_main" /\ stage = "extract"
    /\ \E ran \in {"ok", "ffmpeg.Error", "other exception"} :
          /\ IF ran = "ok"
             THEN /\ fs' = [fs EXCEPT ![AudioPath] = Some(AudioContent)]
                  /\ Goto("transcribe", <<"extract_audio">>)
             ELSE /\ fs' = fs
                  /\ End(IF ran = "ffmpeg.Error"
                         THEN <<"extract_audio", "error", "error">>
                         ELSE <<"extract_audio", "error">>,
                         Exit(1))
    /\ UNCHANGED <<otherVars, transcript_data, audio_status, json_status, exception>>

\* output_file = transcribe_audio(...) of the older program: it makes the two
\* clients itself, before its try, uploads once, polls, downloads to
\* transcript.json, deletes the two objects and returns the path of the file
\* as the service wrote it. A job that FAILED is printed as "Job failed", and
\* the click.Abort raised for it is caught and printed by the function and
\* again by main.
LegacyMainTranscribe ==
    /\ tool = "legacy_main" /\ stage = "transcribe"
    /\ \/ /\ End(<<"transcribe_audio", "boto3.client", "error">>, Exit(1))
          /\ fs' = fs
       \/ /\ End(<<"transcribe_audio", "boto3.client", "boto3.client", "error">>,
                 Exit(1))
          /\ fs' = fs
       \/ \E c \in TranscribeCalls :
             /\ c.value = None
             /\ End(<<"transcribe_audio", "boto3.client", "boto3.client">>
                        \o c.made \o <<"error", "error">>,
                    Exit(1))
             /\ fs' = AfterTranscribe(AudioPath, c)
       \/ \E n \in 1..MaxPolls :
             /\ End(<<"transcribe_audio", "boto3.client", "boto3.client">>
                        \o SubSeq(ClientCalls(n), 1, n + 2)
                        \o <<"error", "error", "error">>,
                    Exit(1))
             /\ fs' = fs
       \/ \E c \in TranscribeCalls :
             /\ c.value # None
             /\ Goto("render",
                     <<"transcribe_audio", "boto3.client", "boto3.client">> \o c.made)
             /\ fs' = AfterTranscribe(AudioPath, c)
    /\ UNCHANGED <<otherVars, transcript_data, audio_status, json_status, exception>>

\* json.load of output_file, convert_to_markdown of the same file, then
\* "Transcription Complete!", the figures and the preview
LegacyMainRender ==
    /\ tool = "legacy_main" /\ stage = "render"
    /\ transcript_data' = Some(JsonLoad(fs[TranscriptPath(AudioPath)][1]))
    /\ fs' = [fs EXCEPT ![MarkdownPath(TranscriptPath(AudioPath))] =
                  Some(LegacyRenderedDocument(JsonLoad(fs[TranscriptPath(AudioPath)][1])))]
    /\ Goto("cleanup", <<"json.load", "convert_to_markdown", "complete">>)
    /\ UNCHANGED <<otherVars, audio_status, json_status, exception>>

\* the two cleanups and the panel "Success!"
LegacyMainCleanup ==
    /\ tool = "legacy_main" /\ stage = "cleanup"
    /\ LET audio_gone == options.cleanup_audio /\ fs[AudioPath] # None
           after_audio == IF audio_gone THEN [fs EXCEPT ![AudioPath] = None] ELSE fs
           json_gone == options.cleanup_json
                            /\ after_audio[TranscriptPath(AudioPath)] # None
       IN /\ fs' = IF json_gone
                   THEN [after_audio EXCEPT ![TranscriptPath(AudioPath)] = None]
                   ELSE after_audio
          /\ audio_status' = Some(IF audio_gone THEN "removed" ELSE "preserved")
          /\ json_status' = Some(IF json_gone THEN "removed" ELSE "preserved")
          /\ End((IF audio_gone THEN <<"unlink audio_file">> ELSE <<>>)
                     \o (IF json_gone THEN <<"unlink output_file">> ELSE <<>>)
                     \o <<"success">>,
                 Exit(0))
    /\ UNCHANGED <<otherVars, transcript_data, exception>>

\* ---- mcp.py, extract_audio

\* the tool is called and suspends at await ctx.info(f"Extracting audio from
\* {video_path}")
ExtractToolAnnounce ==
    /\ tool = "extract_audio" /\ stage = "start"
    /\ Goto("await 57", <<>>)
    /\ UNCHANGED <<otherVars, fs, transcript_data, audio_status, json_status, exception>>

\* the message is sent; video_file.exists(), then extract_audio, up to the
\* await of line 65 or, when it raised, of line 73
ExtractToolRun ==
    /\ tool = "extract_audio" /\ stage = "await 57"
    /\ IF fs[video_file] = None
       THEN /\ End(<<"ctx.info">>, Raised("FileNotFoundError",
                                          <<"Video file not found: ", video_file>>))
            /\ UNCHANGED <<fs, exception>>
       ELSE \E ok \in BOOLEAN :
               /\ IF ok
                  THEN /\ fs' = [fs EXCEPT ![AudioPath] = Some(AudioContent)]
                       /\ exception' = exception
                       /\ Goto("await 65", <<"ctx.info", "extract_audio">>)
                  ELSE /\ fs' = fs
                       /\ exception' = Some(<<"ffmpeg error">>)
                       /\ Goto("await 73", <<"ctx.info", "extract_audio">>)
    /\ UNCHANGED <<otherVars, transcript_data, audio_status, json_status>>

\* await ctx.info(f"Audio extracted to {audio_file}"), then the return
ExtractToolReturn ==
    /\ tool = "extract_audio" /\ stage = "await 65"
    /\ End(<<"ctx.info">>, Returned(AudioPath))
    /\ UNCHANGED <<otherVars, fs, transcript_data, audio_status, json_status, exception>>

\* await ctx.error(f"Audio extraction failed: {str(e)}"), then raise
ExtractToolFail ==
    /\ tool = "extract_audio" /\ stage = "await 73"
    /\ End(<<"ctx.error">>, Raised("Error", exception[1]))
    /\ UNCHANGED <<otherVars, fs, transcript_data, audio_status, json_status, exception>>

\* ---- mcp.py, transcribe_audio

\* a tool that goes on without looking for audio_file
AudioToolCheckSkipped ==
    /\ tool = "transcribe_audio" /\ stage = "start"
    /\ Goto("await 104", <<>>)
    /\ UNCHANGED <<otherVars, fs, transcript_data, audio_status, json_status, exception>>

\* if not audio_file.exists(): raise FileNotFoundError(...); the job name;
\* the tool suspends at await ctx.info(f"Starting transcription job: ...")
AudioToolCheck ==
    /\ tool = "transcribe_audio" /\ stage = "start"
    /\ IF fs[audio_file] = None
       THEN End(<<>>, Raised("FileNotFoundError",
                             <<"Audio file not found: ", audio_file>>))
       ELSE Goto("await 104", <<>>)
    /\ UNCHANGED <<otherVars, fs, transcript_data, audio_status, json_status, exception>>

\* the message is sent; the tool suspends at await progress.set_total(100)
AudioToolAnnounce ==
    /\ tool = "transcribe_audio" /\ stage = "await 104"
    /\ Goto("await 105", <<"ctx.info">>)
    /\ UNCHANGED <<otherVars, fs, transcript_data, audio_status, json_status, exception>>

\* the two clients, up to await progress.set_message("Uploading to S3...")
\* or, when one of them cannot be made, to the await of line 165
AudioToolClients ==
    /\ tool = "transcribe_audio" /\ stage = "await 105"
    /\ \/ /\ Goto("await 165", <<"boto3.client">>)
          /\ exception' = Some(<<"client error">>)
       \/ /\ Goto("await 165", <<"boto3.client", "boto3.client">>)
          /\ exception' = Some(<<"client error">>)
       \/ /\ Goto("await 125", <<"boto3.client", "boto3.client">>)
          /\ exception' = exception
    /\ UNCHANGED <<otherVars, fs, transcript_data, audio_status, json_status>>

\* the awaits of lines 125, 126 and 129 before the transcription and of lines
\* 141 and 142 after it, on the progress of the task: each one resumes and
\* the tool runs to the next await; the figures are computed after line 142
AudioToolProgress ==
    /\ tool = "transcribe_audio"
    /\ \E step \in { <<"await 125", "await 126">>, <<"await 126", "await 129">>,
                     <<"await 129", "await 130">>, <<"await 141", "await 142">>,
                     <<"await 142", "await 155">> } :
          /\ stage = step[1]
          /\ Goto(step[2], <<>>)
    /\ UNCHANGED <<otherVars, fs, transcript_data, audio_status, json_status, exception>>

\* await progress.increment(10) resumes; transcript_data =
\* transcribe_audio(...), up to the await of line 141 or, when it raised, of
\* line 165
AudioToolRun ==
    /\ tool = "transcribe_audio" /\ stage = "await 130"
    /\ \E c \in TranscribeCalls :
          /\ fs' = AfterTranscribe(audio_file, c)
          /\ IF c.value = None
             THEN /\ Goto("await 165", <<"transcribe_audio">> \o c.made)
                  /\ exception' = Some(<<"transcribe error">>)
                  /\ transcript_data' = transcript_data
             ELSE /\ Goto("await 141", <<"transcribe_audio">> \o c.made)
                  /\ exception' = exception
                  /\ transcript_data' = c.value
    /\ UNCHANGED <<otherVars, audio_status, json_status>>

\* await ctx.info(f"Transcription completed. Speakers: ..."), then the return
\* of the dict that holds transcript_data
AudioToolReturn ==
    /\ tool = "transcribe_audio" /\ stage = "await 155"
    /\ End(<<"ctx.info">>, ReturnedData(transcript_data[1]))
    /\ UNCHANGED <<otherVars, fs, transcript_data, audio_status, json_status, exception>>

\* await ctx.error(f"Transcription failed: {str(e)}"), then raise
AudioToolFail ==
    /\ tool = "transcribe_audio" /\ stage = "await 165"
    /\ End(<<"ctx.error">>, Raised("Error", exception[1]))
    /\ UNCHANGED <<otherVars, fs, transcript_data, audio_status, json_status, exception>>

\* ---- mcp.py, transcribe_video

\* if not video_file.exists(): raise FileNotFoundError(...); the job name;
\* the tool suspends at await ctx.info(f"Starting video transcription
\* pipeline: ...")
VideoToolCheck ==
    /\ tool = "transcribe_video" /\ stage = "start"
    /\ IF fs[video_file] = None
       THEN End(<<>>, Raised("FileNotFoundError",
                             <<"Video file not found: ", video_file>>))
       ELSE Goto("await 198", <<>>)
    /\ UNCHANGED <<otherVars, fs, transcript_data, audio_status, json_status, exception>>

\* the message is sent; the tool suspends at await progress.set_total(100)
VideoToolAnnounce ==
    /\ tool = "transcribe_video" /\ stage = "await 198"
    /\ Goto("await 199", <<"ctx.info">>)
    /\ UNCHANGED <<otherVars, fs, transcript_data, audio_status, json_status, exception>>

\* the two clients, up to await progress.set_message("Extracting audio from
\* video...") or, when one of them cannot be made, to the await of line 279
VideoToolClients ==
    /\ tool = "transcribe_video" /\ stage = "await 199"
    /\ \/ /\ Goto("await 279", <<"boto3.client">>)
          /\ exception' = Some(<<"client error">>)
       \/ /\ Goto("await 279", <<"boto3.client", "boto3.client">>)
          /\ exception' = Some(<<"client error">>)
       \/ /\ Goto("await 219", <<"boto3.client", "boto3.client">>)
          /\ exception' = exception
    /\ UNCHANGED <<otherVars, fs, transcript_data, audio_status, json_status>>

\* Step 1: audio_file = extract_audio(...), up to await
\* progress.increment(20) or, when it raised, to the await of line 279
VideoToolExtract ==
    /\ tool = "transcribe_video" /\ stage = "await 219"
    /\ \E ok \in BOOLEAN :
          /\ IF ok
             THEN /\ fs' = [fs EXCEPT ![AudioPath] = Some(AudioContent)]
                  /\ exception' = exception
                  /\ Goto("await 221", <<"extract_audio">>)
             ELSE /\ fs' = fs
                  /\ exception' = Some(<<"ffmpeg error">>)
                  /\ Goto("await 279", <<"extract_audio">>)
    /\ UNCHANGED <<otherVars, transcript_data, audio_status, json_status>>

\* the awaits of lines 221, 234, 252 and 253 on the progress of the task:
\* each one resumes and the tool runs to the next await; the figures are
\* computed after line 253
VideoToolProgress ==
    /\ tool = "transcribe_video"
    /\ \E step \in { <<"await 221", "await 222">>, <<"await 234", "await 237">>,
                     <<"await 252", "await 253">>, <<"await 253", "await 266">> } :
          /\ stage = step[1]
          /\ Goto(step[2], <<>>)
    /\ UNCHANGED <<otherVars, fs, transcript_data, audio_status, json_status, exception>>

\* await ctx.info(f"Audio extracted: {audio_file}"), up to await
\* progress.set_message("Transcribing audio...")
VideoToolExtracted ==
    /\ tool = "transcribe_video" /\ stage = "await 222"
    /\ Goto("await 225", <<"ctx.info">>)
    /\ UNCHANGED <<otherVars, fs, transcript_data, audio_status, json_status, exception>>

\* Step 2: transcript_data = transcribe_audio(...), up to await
\* progress.increment(60) or, when it raised, to the await of line 279
VideoToolTranscribe ==
    /\ tool = "transcribe_video" /\ stage = "await 225"
    /\ \E c \in TranscribeCalls :
          /\ fs' = AfterTranscribe(AudioPath, c)
          /\ IF c.value = None
             THEN /\ Goto("await 279", <<"transcribe_audio">> \o c.made)
                  /\ exception' = Some(<<"transcribe error">>)
                  /\ transcript_data' = transcript_data
             ELSE /\ Goto("await 234", <<"transcribe_audio">> \o c.made)
                  /\ exception' = exception
                  /\ transcript_data' = c.value
    /\ UNCHANGED <<otherVars, audio_status, json_status>>

\* Step 3: convert_to_markdown, up to await progress.increment(15)
VideoToolRender ==
    /\ tool = "transcribe_video" /\ stage = "await 237"
    /\ fs' = [fs EXCEPT ![MarkdownPath(TranscriptPath(AudioPath))] =
                  Some(RenderedDocument(transcript_data[1]))]
    /\ Goto("await 242", <<"convert_to_markdown">>)
    /\ UNCHANGED <<otherVars, transcript_data, audio_status, json_status, exception>>

\* if output_file.exists(): output_file.unlink(), on the file system files
UnlinkOutput(files) ==
    IF files[TranscriptPath(AudioPath)] # None
    THEN [files EXCEPT ![TranscriptPath(AudioPath)] = None]
    ELSE files

\* Step 4: the audio file goes if cleanup_audio, and the tool suspends at
\* await ctx.info("Audio file cleaned up"); otherwise the JSON file goes, up
\* to await progress.increment(5)
VideoToolCleanup ==
    /\ tool = "transcribe_video" /\ stage = "await 242"
    /\ IF options.cleanup_audio /\ fs[AudioPath] # None
       THEN /\ fs' = [fs EXCEPT ![AudioPath] = None]
            /\ Goto("await 247", <<"unlink audio_file">>)
       ELSE /\ fs' = UnlinkOutput(fs)
            /\ Goto("await 252",
                    IF fs[TranscriptPath(AudioPath)] # None
                    THEN <<"unlink output_file">> ELSE <<>>)
    /\ UNCHANGED <<otherVars, transcript_data, audio_status, json_status, exception>>

\* the message "Audio file cleaned up" is sent, then the JSON file goes, up
\* to await progress.increment(5)
VideoToolCleanupJson ==
    /\ tool = "transcribe_video" /\ stage = "await 247"
    /\ fs' = UnlinkOutput(fs)
    /\ Goto("await 252",
            <<"ctx.info">> \o (IF fs[TranscriptPath(AudioPath)] # None
                               THEN <<"unlink output_file">> ELSE <<>>))
    /\ UNCHANGED <<otherVars, transcript_data, audio_status, json_status, exception>>

\* await ctx.info(f"Pipeline completed. ..."), then the return
VideoToolReturn ==
    /\ tool = "transcribe_video" /\ stage = "await 266"
    /\ End(<<"ctx.info">>, Returned(MarkdownPath(TranscriptPath(AudioPath))))
    /\ UNCHANGED <<otherVars, fs, transcript_data, audio_status, json_status, exception>>

\* await ctx.error(f"Video transcription failed: {str(e)}"), then raise
VideoToolFail ==
    /\ tool = "transcribe_video" /\ stage = "await 279"
    /\ End(<<"ctx.error">>, Raised("Error", exception[1]))
    /\ UNCHANGED <<otherVars, fs, transcript_data, audio_status, json_status, exception>>

NextTools ==
    \/ MainParse
    \/ MainExtract
    \/ MainTranscribe
    \/ MainRender
    \/ MainSummary
    \/ MainCleanupAudio
    \/ MainCleanupJson
    \/ MainSuccess
    \/ LegacyMainParse
    \/ LegacyMainExtract
    \/ LegacyMainTranscribe
    \/ LegacyMainRender
    \/ LegacyMainCleanup
    \/ ExtractToolAnnounce
    \/ ExtractToolRun
    \/ ExtractToolReturn
    \/ ExtractToolFail
    \/ AudioToolCheck
    \/ AudioToolAnnounce
    \/ AudioToolClients
    \/ AudioToolProgress
    \/ AudioToolRun
    \/ AudioToolReturn
    \/ AudioToolFail
    \/ VideoToolCheck
    \/ VideoToolAnnounce
    \/ VideoToolClients
    \/ VideoToolExtract
    \/ VideoToolProgress
    \/ VideoToolExtracted
    \/ VideoToolTranscribe
    \/ VideoToolRender
    \/ VideoToolCleanup
    \/ VideoToolCleanupJson
    \/ VideoToolReturn
    \/ VideoToolFail

SpecTools == InitTools /\ [][NextTools]_vars

TypeOK ==
    /\ pc \in {"timeline", "items", "write", "done"}
    /\ idx \in 1..(Len(items) + 1)
    /\ Len(current_text) <= Len(items)

\* ------------------------------------------------ reading the input back
\* These operators describe the input and the output independently of the
\* converter's loop; the properties below compare the two.

IsWord(k) == items[k].type = "pronunciation"

\* the Word items among items[a..b], as a sequence of indices
WordsIn(a, b) ==
    SelectSeq([k \in 1..(b - a + 1) |-> a + k - 1], LAMBDA k : IsWord(k))

\* the punctuation marks that directly follow position k - 1, concatenated
RECURSIVE MarksFrom(_)
MarksFrom(k) ==
    IF k > Len(items) \/ IsWord(k) THEN <<>>
    ELSE items[k].content \o MarksFrom(k + 1)

\* a word with its trailing punctuation glued on
Glued(k) == items[k].content \o MarksFrom(k + 1)

GluedWords(a, b) == [j \in 1..Len(WordsIn(a, b)) |-> Glued(WordsIn(a, b)[j])]

\* the label of the lowest-index segment whose closed interval holds t
FirstSegmentLabel(t) ==
    LET hits == { k \in 1..Len(segments) :
                    segments[k].start_time <= t /\ t <= segments[k].end_time }
    IN IF hits = {} THEN None
       ELSE Some(segments[CHOOSE k \in hits : \A j \in hits : k <= j].speaker_label)

\* the speaker the converter's lookup gives the word at position k
Resolved(k) == FindSpeaker(BuildSpeakerTimeline(<<>>, segments), items[k].start_time)

\* the maximal runs of consecutive words with one resolved speaker, among
\* items[1..n]
RECURSIVE RunsUpTo(_)
RunsUpTo(n) ==
    IF n = 0 THEN <<>>
    ELSE LET r == RunsUpTo(n - 1)
         IN IF ~IsWord(n) THEN r
            ELSE IF r # <<>> /\ r[Len(r)].speaker = Resolved(n)
                 THEN [r EXCEPT ![Len(r)].last = n]
                 ELSE Append(r, [speaker |-> Resolved(n), first |-> n, last |-> n])

Runs == RunsUpTo(Len(items))

\* s.split(c)
RECURSIVE SplitOn(_, _)
SplitOn(s, c) ==
    IF \A k \in 1..Len(s) : s[k] # c THEN <<s>>
    ELSE LET p == CHOOSE k \in 1..Len(s) : s[k] = c /\ \A j \in 1..(k - 1) : s[j] # c
         IN <<SubSeq(s, 1, p - 1)>> \o SplitOn(SubSeq(s, p + 1, Len(s)), c)

\* the space-separated tokens of a line after its "[speaker: x][a-b]: " header
Tokens(line) == LET parts == SplitOn(line, " ") IN SubSeq(parts, 3, Len(parts))

RECURSIVE Flatten(_)
Flatten(ss) == IF ss = <<>> THEN <<>> ELSE ss[1] \o Flatten(Tail(ss))

\* the label printed on a line
LabelOf(line) ==
    LET rest == SubSeq(line, Len(S_SpeakerOpen) + 1, Len(line))
    IN SplitOn(rest, "]")[1]

Label(speaker) == IF speaker = None THEN <<>> ELSE speaker[1]

Finished == pc = "done"

\* the index of the last Word item among items[1..idx-1], 0 if none
LastWord ==
    IF WordsIn(1, idx - 1) = <<>> THEN 0
    ELSE WordsIn(1, idx - 1)[Len(WordsIn(1, idx - 1))]

\* the line the document should carry for the run r of the input
LineOfRun(r) ==
    S_SpeakerOpen \o Label(r.speaker) \o S_TimeOpen
      \o FormatTime(items[r.first].start_time) \o <<"-">>
      \o FormatTime(items[r.last].end_time) \o S_TextOpen
      \o Join(S_Space, GluedWords(r.first, r.last))

\* ----------------------------------------------------------------- claims

\* C1: every maximal run of consecutive words whose start_time lies inside no
\* speaker segment is rendered as one line with the empty tag "[speaker: ]"
\* that carries those words.
UnattributedRunsRendered ==
    Finished =>
        \A j \in 1..Len(Runs) :
            FirstSegmentLabel(items[Runs[j].first].start_time) = None =>
                \E k \in 1..Len(markdown_lines) : markdown_lines[k] = LineOfRun(Runs[j])

\* C2: the space-separated tokens of all output lines, read in order, are
\* exactly the Word items of the input in input order, each with its trailing
\* punctuation glued on.
NoWordLost ==
    Finished =>
        Flatten([k \in 1..Len(markdown_lines) |-> Tokens(markdown_lines[k])])
            = GluedWords(1, Len(items))

\* C3: the speaker resolved for a word is the label of the lowest-index
\* segment of the input with start <= word.start_time <= end, or undefined if
\* no segment matches.
LookupIsFirstMatch ==
    (pc # "timeline" /\ LastWord # 0) =>
        current_speaker = FirstSegmentLabel(items[LastWord].start_time)

\* C4: with an empty items sequence the document is exactly the title line
\* followed by one blank line, whatever the speaker segments are.
EmptyItemsGiveTitleOnly ==
    (Finished /\ items = <<>>) =>
        fs[markdown_file] = Some(S_Title \o <<"\n", "\n">>)

EmptyItemsRendered ==
    Finished /\ items = <<>> /\ segments # <<>> /\ fs[markdown_file] # None

\* C5: the output lines are the maximal same-speaker runs of the words, one
\* line per run in order, defined and undefined speakers alike: a change of
\* resolved speaker closes the run in progress as its own line, and no run is
\* merged with another or spread over several lines.
SpeakerChangeStartsNewLine ==
    Finished =>
        /\ Len(markdown_lines) = Len(Runs)
        /\ \A k \in 1..Len(markdown_lines) :
              /\ k <= Len(Runs)
              /\ LabelOf(markdown_lines[k]) = Label(Runs[k].speaker)
              /\ Tokens(markdown_lines[k]) = GluedWords(Runs[k].first, Runs[k].last)

\* the punctuation marks items[a..b], concatenated
RECURSIVE MarksBetween(_, _)
MarksBetween(a, b) ==
    IF a > b THEN <<>> ELSE items[a].content \o MarksBetween(a + 1, b)

\* C6: a punctuation item that follows at least one word is appended, with no
\* space, to the most recently accumulated word; consecutive marks pile up on
\* that word in input order; a punctuation step adds no token, no run and no
\* line.
PunctuationGluesToLastWord ==
    /\ []((pc = "items" /\ LastWord # 0) =>
            /\ current_text # <<>>
            /\ current_text[Len(current_text)]
                 = items[LastWord].content \o MarksBetween(LastWord + 1, idx - 1))
    /\ [][(pc = "items" /\ idx <= Len(items) /\ ~IsWord(idx)) =>
            /\ Len(current_text') = Len(current_text)
            /\ UNCHANGED <<markdown_lines, current_speaker, current_start, current_end>>]_vars

TwoMarksGlued ==
    /\ pc = "items"
    /\ idx >= 4
    /\ IsWord(idx - 3) /\ ~IsWord(idx - 2) /\ ~IsWord(idx - 1)
    /\ items[idx - 2].content # items[idx - 1].content
    /\ current_text = <<items[idx - 3].content \o items[idx - 2].content
                          \o items[idx - 1].content>>

\* the lines emitted so far are lines of runs of the words read so far, in
\* the order of the runs, each satisfying P
LinesMatchRuns(P(_, _)) ==
    LET runs == RunsUpTo(idx - 1)
    IN \E f \in [1..Len(markdown_lines) -> 1..Len(runs)] :
          /\ \A a, b \in 1..Len(markdown_lines) : a < b => f[a] < f[b]
          /\ \A k \in 1..Len(markdown_lines) : P(markdown_lines[k], runs[f[k]])

\* C7: the time range printed on a line is the start_time of its run's first
\* word and the end_time of its run's last word; while a run grows, its end
\* is the end_time of the last word read and its start and speaker stay those
\* of its first word.
RunTimeRange ==
    /\ LinesMatchRuns(LAMBDA line, r : line = LineOfRun(r))
    /\ (pc = "items" /\ LastWord # 0) =>
          LET runs == RunsUpTo(idx - 1)
              r == runs[Len(runs)]
          IN /\ current_end = Some(items[LastWord].end_time)
             /\ r.last = LastWord
             /\ current_speaker = r.speaker
             /\ Truthy(current_speaker) => current_start = Some(items[r.first].start_time)

LongRunPrinted ==
    /\ Finished
    /\ \E k \in 1..Len(markdown_lines) : \E j \in 1..Len(Runs) :
          /\ markdown_lines[k] = LineOfRun(Runs[j])
          /\ Runs[j].first < Runs[j].last
          /\ items[Runs[j].first].start_time # items[Runs[j].last].start_time
          /\ items[Runs[j].first].end_time # items[Runs[j].last].end_time

IsDigit(c) == \E d \in 1..10 : DigitChars[d] = c
DigitValue(c) == (CHOOSE d \in 1..10 : DigitChars[d] = c) - 1

\* int(s) of a string of digits
RECURSIVE NumberOf(_)
NumberOf(s) ==
    IF Len(s) = 0 THEN 0
    ELSE 10 * NumberOf(SubSeq(s, 1, Len(s) - 1)) + DigitValue(s[Len(s)])

\* the two time fields of a line, each as <<MM, SS>>
TimeFields(line) ==
    LET range == Tail(SplitOn(line, "]")[2])
        ends == SplitOn(range, "-")
    IN <<SplitOn(ends[1], ":"), SplitOn(ends[2], ":")>>

\* field is the MM:SS rendering of t: two digits each, SS in 0..59, and the
\* whole seconds 60*MM + SS are the time truncated
TruncatedClock(field, t) ==
    /\ Len(field) = 2
    /\ Len(field[1]) = 2 /\ Len(field[2]) = 2
    /\ \A p \in 1..2 : \A q \in 1..2 : IsDigit(field[p][q])
    /\ NumberOf(field[2]) \in 0..59
    /\ LET whole == 60 * NumberOf(field[1]) + NumberOf(field[2])
       IN /\ whole * TicksPerSecond <= t
          /\ t < (whole + 1) * TicksPerSecond

\* C8: every time field of every emitted line is MM:SS with
\* MM = floor(seconds / 60) and SS = floor(seconds mod 60), two digits each,
\* fractions truncated and never rounded up, SS in 00..59.
TimeFieldsTruncate ==
    LinesMatchRuns(LAMBDA line, r :
        /\ LabelOf(line) = Label(r.speaker)
        /\ Tokens(line) = GluedWords(r.first, r.last)
        /\ Len(SplitOn(line, "]")) >= 2
        /\ Len(SplitOn(Tail(SplitOn(line, "]")[2]), "-")) = 2
        /\ TruncatedClock(TimeFields(line)[1], items[r.first].start_time)
        /\ TruncatedClock(TimeFields(line)[2], items[r.last].end_time))

FractionalEndPrinted ==
    /\ Finished
    /\ \E k \in 1..Len(markdown_lines) :
          Tail(SplitOn(markdown_lines[k], "]")[2])
             = <<"0", "0", ":", "4", "1", "-", "0", "2", ":", "0", "5">>

\* the lines of the expected document: the title, a blank line, then the
\* entries with one blank line between neighbours
ExpectedRows(lines) ==
    IF lines = <<>> THEN <<S_Title, <<>>, <<>>>>
    ELSE <<S_Title, <<>>>> \o
         [k \in 1..(2 * Len(lines) - 1) |->
             IF k % 2 = 1 THEN lines[(k + 1) \div 2] ELSE <<>>]

\* C9: the document is the title line, one blank line, then the flushed
\* lines in flush order with exactly one blank line between consecutive
\* entries and nothing after the last entry.
DocumentLayout ==
    Finished =>
        /\ fs[markdown_file] # None
        /\ SplitOn(fs[markdown_file][1], "\n") = ExpectedRows(markdown_lines)

TwoEntriesWritten ==
    Finished /\ Len(markdown_lines) >= 2 /\ fs[markdown_file] # None

\* C10: a word whose start_time equals the start_time or the end_time of a
\* segment is attributed to that segment when no earlier segment holds it;
\* the word's end_time is not consulted.
BoundaryWordAttributed ==
    (pc # "timeline" /\ LastWord # 0) =>
        LET t == items[LastWord].start_time
            Holds(j) == segments[j].start_time <= t /\ t <= segments[j].end_time
        IN \A j \in 1..Len(segments) :
              ( /\ segments[j].start_time = t \/ segments[j].end_time = t
                /\ Holds(j)
                /\ \A i \in 1..(j - 1) : ~Holds(i) )
              => current_speaker = Some(segments[j].speaker_label)

\* C11: rendering the same transcription result twice, to the same output
\* location, yields byte-identical documents: the document a call leaves is
\* the document the call before it left, whatever the first call found on
\* the file system.
RenderingIsIdempotent ==
    (Finished /\ run > 1) => fs[markdown_file] = previous

RenderedTwice ==
    /\ Finished
    /\ run = 2
    /\ Len(markdown_lines) >= 1
    /\ previous # None
    /\ previous # Some(OldContent)

\* C12 as stated: a call returns the document and leaves the file system as
\* it found it.
RendererIsPure ==
    Finished =>
        /\ fs = storage_before
        /\ returned = Some(Document(markdown_lines))

\* C12 as amended: a call changes no file but transcript.md in the parent
\* directory of output_file, changes that one only in its last step, and
\* returns the path of that file, not the document.
OnlyMarkdownFileWritten ==
    /\ \A p \in Paths :
          p # Under(Parent(output_file), "transcript.md") => fs[p] = storage_before[p]
    /\ ~Finished => fs = storage_before
    /\ Finished => returned = Some(Under(Parent(output_file), "transcript.md"))

OtherFilesKept ==
    /\ Finished
    /\ output_file # markdown_file
    /\ storage_before[output_file] = Some(OldContent)
    /\ fs[output_file] = Some(OldContent)
    /\ fs[markdown_file] # Some(OldContent)

\* C13: the document is written to the file named transcript.md in the
\* parent directory of output_file, whatever the name of output_file,
\* replacing what the file held; that path is returned, and the file then
\* exists and starts with the title line.
WritesTranscriptMd ==
    Finished =>
        LET target == <<output_file[1], "transcript.md">>
        IN /\ returned = Some(target)
           /\ fs[target] # None
           /\ Len(fs[target][1]) > Len(S_Title)
           /\ SubSeq(fs[target][1], 1, Len(S_Title) + 1) = S_Title \o <<"\n">>
           /\ fs[target][1] = S_Title \o S_NlNl \o Join(S_NlNl, markdown_lines)

OldTranscriptReplaced ==
    /\ Finished
    /\ output_file = <<"meet", "out.json">>
    /\ storage_before[<<"meet", "transcript.md">>] = Some(OldContent)
    /\ returned = Some(<<"meet", "transcript.md">>)

\* the document a call would have produced running alone
DocumentAlone(c) ==
    Document(RenderLines(calls[c].transcript.items, calls[c].transcript.segments))

\* C14 as stated: two calls with different transcription results share no
\* mutable state, so once both have returned each has exactly the document
\* it would have produced running alone.
ConcurrentCallsIndependent ==
    (\A c \in Calls : calls[c].pc = "done") =>
        \A c \in Calls : fs[calls[c].returned[1]] = Some(DocumentAlone(c))

\* the file after document over is written at the start of a file that
\* holds document under
WrittenOver(over, under) == WriteAt(under, 0, over)

\* C14 as amended: two calls that interleave, each system call a step of its
\* own, share the file transcript.md of their output directory and nothing
\* else. Each
\* call returns the path of that file. When the output_file arguments of the
\* two calls lie in different directories, a call that has returned has
\* exactly the document it would have produced running alone, wherever the
\* other call is. When they lie in the same directory, the two calls return
\* the same path, and once both have returned the file holds the document of
\* one of them, or the document of one written over the start of the
\* document of the other.
ConcurrentCallsShareTheFile ==
    /\ \A c \in Calls :
           calls[c].pc = "done" =>
               calls[c].returned = Some(Under(Parent(calls[c].output_file), "transcript.md"))
    /\ (Parent(calls[1].output_file) # Parent(calls[2].output_file)) =>
           \A c \in Calls :
               calls[c].pc = "done" =>
                   fs[Under(Parent(calls[c].output_file), "transcript.md")]
                     = Some(DocumentAlone(c))
    /\ (/\ Parent(calls[1].output_file) = Parent(calls[2].output_file)
        /\ \A c \in Calls : calls[c].pc = "done") =>
           /\ calls[1].returned = calls[2].returned
           /\ fs[Under(Parent(calls[1].output_file), "transcript.md")] \in
                  { Some(DocumentAlone(1)), Some(DocumentAlone(2)),
                    Some(WrittenOver(DocumentAlone(1), DocumentAlone(2))),
                    Some(WrittenOver(DocumentAlone(2), DocumentAlone(1))) }

\* both calls of one directory have returned and the file is the document
\* of neither: the short document of the second call lies over the start of
\* the long document of the first, which was written before the first call
\* closed the file
InterleavedMix ==
    /\ Parent(calls[1].output_file) = Parent(calls[2].output_file)
    /\ \A c \in Calls : calls[c].pc = "done"
    /\ Len(DocumentAlone(1)) > ChunkSize
    /\ fs[MarkdownPath(calls[1].output_file)]
         = Some(WrittenOver(DocumentAlone(2), DocumentAlone(1)))
    /\ fs[MarkdownPath(calls[1].output_file)] # Some(DocumentAlone(1))
    /\ fs[MarkdownPath(calls[1].output_file)] # Some(DocumentAlone(2))

\* the first call of one directory has returned and its file has lost the
\* title: the other call opened the file between the two system calls that
\* wrote the title and the lines
TitleLost ==
    /\ Parent(calls[1].output_file) = Parent(calls[2].output_file)
    /\ calls[1].pc = "done"
    /\ calls[2].pc = "open"
    /\ fs[MarkdownPath(calls[1].output_file)]
         = Some([k \in 1..Len(S_Title \o S_NlNl) |-> Nul]
                  \o Join(S_NlNl, calls[1].markdown_lines))

\* one call of two directories has returned with its document while the
\* other has its file open
InterleavedApart ==
    /\ Parent(calls[1].output_file) # Parent(calls[2].output_file)
    /\ calls[1].pc = "done"
    /\ calls[2].pc = "open"
    /\ fs = [p \in Paths |->
               IF p = MarkdownPath(calls[1].output_file) THEN Some(DocumentAlone(1))
               ELSE IF p = MarkdownPath(calls[2].output_file) THEN Some(<<>>)
               ELSE Some(OldContent)]

\* the loop of the single call and the fold of the concurrent calls compute
\* the same lines
LoopIsFold == Finished => markdown_lines = RenderLines(items, segments)

\* ------------------------------------------------------- transcribe_audio
FailedPolled == \E k \in 1..Len(polled) : polled[k] = "FAILED"

\* C15: when a status poll reports FAILED the call raises RuntimeError with
\* the message "Transcription failed: " followed by the job's FailureReason,
\* or by "Unknown error" when the job carries none, instead of returning a
\* result; it does so at the first such poll, so FAILED is the status of the
\* last poll only.
FailedJobRaises ==
    FailedPolled =>
        /\ at = "raised"
        /\ error = Some(RuntimeError(S_TranscriptionFailed
                          \o (IF job.failure_reason = None
                              THEN <<"U", "n", "k", "n", "o", "w", "n", " ",
                                     "e", "r", "r", "o", "r">>
                              ELSE job.failure_reason[1])))
        /\ result = None
        /\ \A k \in 1..Len(polled) : polled[k] = "FAILED" => k = Len(polled)

FailedAfterWaiting ==
    /\ polled = <<"QUEUED", "IN_PROGRESS", "FAILED">>
    /\ error = Some(RuntimeError(S_TranscriptionFailed \o S_TestFailure))

FailedWithoutReason ==
    /\ FailedPolled
    /\ job.failure_reason = None
    /\ error = Some(RuntimeError(S_TranscriptionFailed \o S_UnknownError))

\* the client calls of a call that has polled n times and has gone through
\* to the end
RECURSIVE Polls(_)
Polls(n) == IF n = 0 THEN <<>> ELSE <<"get_transcription_job">> \o Polls(n - 1)

CallsInOrder(n) ==
    <<"upload_file", "start_transcription_job">> \o Polls(n)
        \o <<"download_file", "delete_object", "delete_object">>

\* C16: the client calls come in the order upload, start, polls, download,
\* delete, delete; a download has happened only when the last poll reported
\* COMPLETED; and a call that has returned has deleted the audio object and
\* the transcript object and returns the value of the JSON document the
\* service wrote, which is also what the downloaded file holds.
SuccessPathInOrder ==
    /\ Len(api_calls) <= Len(polled) + 5
    /\ api_calls = SubSeq(CallsInOrder(Len(polled)), 1, Len(api_calls))
    /\ Len(api_calls) > Len(polled) + 2 =>
           /\ polled # <<>>
           /\ polled[Len(polled)] = "COMPLETED"
    /\ at = "returned" =>
           /\ api_calls = CallsInOrder(Len(polled))
           /\ bucket[<<"audio/", job_name, "/", "audio.mp3">>] = None
           /\ bucket[<<"transcripts/", job_name, ".json">>] = None
           /\ fs[<<"meet", "transcript.json">>] = Some(job.transcript[1].text)
           /\ result = Some(job.transcript[1].value)
           /\ error = None

ReturnedAfterWaiting ==
    /\ at = "returned"
    /\ polled = <<"IN_PROGRESS", "COMPLETED">>
    /\ result = Some(<<41, 9>>)
    /\ bucket[OtherKey] = Some(OldContent)

\* ------------------------------------------------- command line and tools
Count(e) == Cardinality({ k \in 1..Len(trace) : trace[k] = e })
First(e) == CHOOSE k \in 1..Len(trace) : trace[k] = e /\ \A j \in 1..(k - 1) : trace[j] # e
Happened(e) == \E k \in 1..Len(trace) : trace[k] = e

Failure(e) == e \in {"error", "ctx.error"}
Unlink(e) == e \in {"unlink audio_file", "unlink output_file"}

Succeeded ==
    /\ outcome # None
    /\ \/ outcome[1] = Exit(0)
       \/ outcome[1].kind = "returned"

\* C17: in main and in transcribe_video the renderer is called after
\* extract_audio and after the last client call of transcribe_audio, in that
\* order and with no failure before it; it is called at most once, and once
\* in a run that succeeds; a file is unlinked only after the renderer was
\* called.
StagesInOrder ==
    tool \in {"main", "transcribe_video"} =>
        /\ Count("convert_to_markdown") <= 1
        /\ Succeeded => Count("convert_to_markdown") = 1
        /\ Happened("convert_to_markdown") =>
               /\ Count("extract_audio") = 1
               /\ Count("transcribe_audio") = 1
               /\ First("extract_audio") < First("transcribe_audio")
               /\ \A k \in 1..Len(trace) :
                      trace[k] \in {"delete_object", "transcribe_audio"}
                          => k < First("convert_to_markdown")
               /\ Count("delete_object") = 2
               /\ \A k \in 1..First("convert_to_markdown") : ~Failure(trace[k])
        /\ \A k \in 1..Len(trace) :
               Unlink(trace[k]) =>
                   /\ Happened("convert_to_markdown")
                   /\ First("convert_to_markdown") < k

VideoPipelineReturned ==
    /\ tool = "transcribe_video"
    /\ Succeeded
    /\ Happened("unlink audio_file")
    /\ Happened("unlink output_file")
    /\ fs[<<"meet", "transcript.md">>] # None

MainPipelineSucceeded ==
    /\ tool = "main"
    /\ Succeeded
    /\ Happened("unlink audio_file")
    /\ Happened("unlink output_file")
    /\ fs[<<"meet", "transcript.md">>] # None

\* C18: when extraction or transcription raises in a run of main, the run
\* ends with exit code 1, and neither json.load nor convert_to_markdown is
\* called, no file is unlinked, and neither "Transcription Complete!" nor
\* the panel "Success!" is printed.
FailedStageAborts ==
    (tool = "main" /\ Happened("error")) =>
        /\ stage = "done"
        /\ outcome = Some(Exit(1))
        /\ \A e \in {"json.load", "convert_to_markdown", "complete", "success",
                     "unlink audio_file", "unlink output_file"} : ~Happened(e)
        /\ \A k \in First("error")..Len(trace) : trace[k] = "error"
        /\ audio_status = None
        /\ json_status = None

TranscriptionAborted ==
    /\ tool = "main"
    /\ Happened("extract_audio")
    /\ Happened("start_transcription_job")
    /\ ~Happened("download_file")
    /\ Happened("error")
    /\ outcome = Some(Exit(1))

ExtractionAborted ==
    /\ tool = "main"
    /\ trace = <<"extract_audio", "error", "error">>
    /\ outcome = Some(Exit(1))

\* C19: after a run of main that succeeded, the audio file is gone exactly
\* when cleanup-audio was in effect and the JSON file is gone exactly when
\* cleanup-json was in effect, both having existed; each is reported as
\* removed when it is gone and as preserved otherwise; and the markdown
\* transcript exists from the call of the renderer on.
CleanupFollowsOptions ==
    tool = "main" =>
        /\ Happened("convert_to_markdown") =>
               fs[Under(Parent(video_file), "transcript.md")] # None
        /\ outcome = Some(Exit(0)) =>
               /\ fs[Under(Parent(video_file), options.audio_name)] = None
                      <=> options.cleanup_audio
               /\ Happened("unlink audio_file") <=> options.cleanup_audio
               /\ audio_status
                      = Some(IF options.cleanup_audio THEN "removed" ELSE "preserved")
               /\ fs[Under(Parent(video_file), "transcript.json")] = None
                      <=> options.cleanup_json
               /\ Happened("unlink output_file") <=> options.cleanup_json
               /\ json_status
                      = Some(IF options.cleanup_json THEN "removed" ELSE "preserved")
               /\ fs[Under(Parent(video_file), "transcript.md")]
                      = Some(RenderedDocument(transcript_data[1]))

McpTool == tool \in {"extract_audio", "transcribe_audio", "transcribe_video"}

NotFound ==
    /\ outcome # None
    /\ outcome[1].kind = "raised"
    /\ outcome[1].type = "FileNotFoundError"
    /\ outcome[1].message[1] \in {"Video file not found: ", "Audio file not found: "}

\* C20 as stated: a tool called on a path that does not exist does nothing
\* before it fails with the not found error.
ChecksInputFirst ==
    (McpTool /\ fs[InputOf(tool)] = None) =>
        /\ trace = <<>>
        /\ stage = "done" => NotFound

\* C20 as amended: transcribe_audio and transcribe_video called on a path
\* that does not exist do nothing before they fail with the not found error;
\* extract_audio first sends the message "Extracting audio from ..." to the
\* client and does nothing else before it fails with that error; none of the
\* three calls the extractor, creates a client, uploads anything or changes a
\* file.
MissingInputNotFound ==
    (McpTool /\ fs[InputOf(tool)] = None) =>
        /\ trace = (IF tool = "extract_audio" /\ stage = "done"
                    THEN <<"ctx.info">> ELSE <<>>)
        /\ stage = "done" => NotFound
        /\ stage \in {"start", "await 57", "done"}
        /\ fs \in ToolFileSystems

AnnouncedThenNotFound ==
    /\ tool = "extract_audio"
    /\ fs[video_file] = None
    /\ trace = <<"ctx.info">>
    /\ NotFound

\* ------------------------------------------------------ repeated segments
Pair(k) == <<segments[k].start_time, segments[k].end_time>>

\* the positions of the segments that are the first with their pair
FirstOfPairs ==
    SelectSeq([k \in 1..Len(segments) |-> k],
              LAMBDA k : \A j \in 1..(k - 1) : Pair(j) # Pair(k))

\* the position of the last segment with the pair of segment k
LastOfPair(k) ==
    CHOOSE j \in 1..Len(segments) :
        Pair(j) = Pair(k) /\ \A i \in (j + 1)..Len(segments) : Pair(i) # Pair(k)

\* C21: the lookup has one entry for each distinct (start, end) pair, in the
\* order in which the pairs first occur among the segments, and the entry of
\* a pair carries the label of the last segment with that pair; a word is
\* attributed to the label carried by the first entry whose interval holds
\* its start_time.
DuplicatesCollapse ==
    pc # "timeline" =>
        /\ speaker_timeline =
               [i \in 1..Len(FirstOfPairs) |->
                   [key |-> Pair(FirstOfPairs[i]),
                    val |-> segments[LastOfPair(FirstOfPairs[i])].speaker_label]]
        /\ LastWord # 0 =>
               LET t == items[LastWord].start_time
                   hits == { i \in 1..Len(FirstOfPairs) :
                               /\ segments[FirstOfPairs[i]].start_time <= t
                               /\ t <= segments[FirstOfPairs[i]].end_time }
               IN current_speaker =
                      IF hits = {} THEN None
                      ELSE Some(segments[LastOfPair(FirstOfPairs[
                                   CHOOSE i \in hits : \A j \in hits : i <= j])].speaker_label)

RepeatedAroundOther ==
    /\ Finished
    /\ Len(segments) = 3
    /\ Pair(1) = Pair(3) /\ Pair(1) # Pair(2)
    /\ segments[1].speaker_label = segments[2].speaker_label
    /\ segments[3].speaker_label # segments[1].speaker_label
    /\ LastWord # 0
    /\ segments[2].start_time <= items[LastWord].start_time
    /\ items[LastWord].start_time <= segments[1].end_time
    /\ current_speaker = Some(segments[3].speaker_label)
    /\ Len(markdown_lines) = 1

\* ------------------------------------------------------ leading punctuation
\* items without the punctuation items that precede the first Word item
RECURSIVE WithoutLeadingMarks(_)
WithoutLeadingMarks(its) ==
    IF its = <<>> \/ its[1].type = "pronunciation" THEN its
    ELSE WithoutLeadingMarks(Tail(its))

\* C22: while only punctuation items have been read, the run state is the
\* one the converter starts with (no speaker, no text, no start, no end, no
\* line); and the document is the one the converter writes for the items
\* without their leading punctuation.
LeadingPunctuationDropped ==
    /\ (pc = "items" /\ LastWord = 0) =>
           /\ current_speaker = None
           /\ current_text = <<>>
           /\ current_start = None
           /\ current_end = None
           /\ markdown_lines = <<>>
    /\ Finished =>
           fs[markdown_file]
               = Some(Document(RenderLines(WithoutLeadingMarks(items), segments)))

TwoLeadingMarksDropped ==
    /\ Finished
    /\ Len(items) = 3
    /\ ~IsWord(1) /\ ~IsWord(2) /\ IsWord(3)
    /\ items[1].content # items[2].content
    /\ Len(markdown_lines) = 1
    /\ Tokens(markdown_lines[1]) = <<items[3].content>>

\* -------------------------------------------------------------- empty runs
\* C23: in every reachable state every emitted line has, after its header, a
\* first token that begins with the content of a Word item already read, and
\* there are at most as many emitted lines as Word items read so far.
NoEmptyLine ==
    /\ \A k \in 1..Len(markdown_lines) :
          /\ Tokens(markdown_lines[k]) # <<>>
          /\ \E w \in 1..(idx - 1) :
                /\ IsWord(w)
                /\ Len(Tokens(markdown_lines[k])[1]) >= Len(items[w].content)
                /\ SubSeq(Tokens(markdown_lines[k])[1], 1, Len(items[w].content))
                     = items[w].content
    /\ Len(markdown_lines) <= Len(WordsIn(1, idx - 1))

\* two words of two speakers after a leading mark: as many lines as words,
\* and none for the empty run the first word closed
OneLinePerWord ==
    /\ Finished
    /\ Len(items) = 3
    /\ ~IsWord(1) /\ IsWord(2) /\ IsWord(3)
    /\ Len(markdown_lines) = 2

\* ------------------------------------------------------------ the polling
Terminal(status) == status \in {"COMPLETED", "FAILED"}
TerminalPolled == \E k \in 1..Len(polled) : Terminal(polled[k])
Ended == at \in {"returned", "raised"}

\* C24 as stated, its "only if" half: the call has ended only when a poll
\* has reported COMPLETED or FAILED.
EndsOnlyOnTerminalPoll == Ended => TerminalPolled

\* what holds of the polling in every state: until a poll reports COMPLETED
\* or FAILED the call has neither downloaded, deleted nor returned, and it
\* has ended only by a client call that raised; a call that has ended
\* otherwise has seen COMPLETED or FAILED in its last poll
PollingUntilTerminal ==
    /\ ~TerminalPolled =>
          /\ \A k \in 1..Len(api_calls) :
                api_calls[k] \notin {"download_file", "delete_object"}
          /\ result = None
          /\ at \in {"upload", "start", "poll", "raised"}
          /\ at = "raised" => error = Some(ClientError)
    /\ (Ended /\ error # Some(ClientError)) =>
          /\ TerminalPolled
          /\ Terminal(polled[Len(polled)])
          /\ \A k \in 1..(Len(polled) - 1) : ~Terminal(polled[k])

\* C24 as amended: the loop has no retry limit and no timeout: while no poll
\* has reported COMPLETED or FAILED the call performs no download, delete or
\* return; it ends exactly when a poll reports COMPLETED or FAILED or a
\* client call raises; and when every client call returns or raises and the
\* service brings the job to COMPLETED or FAILED, the call eventually returns
\* or raises.
PollingEnds == []PollingUntilTerminal /\ <>Ended

PolledUntilCompleted ==
    /\ at = "returned"
    /\ polled = <<"QUEUED", "IN_PROGRESS", "IN_PROGRESS", "COMPLETED">>

\* ------------------------------------------------------- errors and cleanup
Issued(call) == \E k \in 1..Len(api_calls) : api_calls[k] = call

\* the call ended with the job FAILED, or with start_transcription_job,
\* get_transcription_job or download_file raising
EndedInListedError ==
    /\ at = "raised"
    /\ Issued("upload_file")
    /\ ~Issued("download_file")

\* C25: when the call ends because the job FAILED or because the start, a
\* poll or the download raised, no delete_object has been issued, the audio
\* object uploaded at the start is still in the bucket under s3_key, what the
\* service wrote under output_key is still there too, and nothing is returned.
NoCleanupOnError ==
    EndedInListedError =>
        /\ ~Issued("delete_object")
        /\ bucket[<<"audio/", job_name, "/", "audio.mp3">>] = Some(AudioContent)
        /\ job.status = "COMPLETED" =>
               bucket[<<"transcripts/", job_name, ".json">>] = Some(job.transcript[1].text)
        /\ result = None
        /\ error # None

DownloadRaised ==
    /\ EndedInListedError
    /\ error = Some(ClientError)
    /\ polled = <<"IN_PROGRESS", "COMPLETED">>
    /\ bucket[S3Key(job_name, audio_file)] # None
    /\ bucket[OutputKey(job_name)] # None

\* ------------------------------------------------------------ maximal runs
\* C26: no two consecutive lines of the document carry the same speaker
\* label.
NeighbourLabelsDiffer ==
    \A k \in 1..(Len(markdown_lines) - 1) :
        LabelOf(markdown_lines[k]) # LabelOf(markdown_lines[k + 1])

\* ------------------------------------------------------- one upload per run
\* C27: a run that starts a transcription job has uploaded the audio file
\* exactly once, and that upload comes before start_transcription_job, in
\* main (transcribe_audio_cli) as well as in the MCP tools.
UploadedOnceBeforeStart ==
    Happened("start_transcription_job") =>
        /\ Count("upload_file") = 1
        /\ First("upload_file") < First("start_transcription_job")

\* ------------------------------------------------- the two renderer copies
\* the locals of the newer copy's loop
Locals ==
    [markdown_lines |-> markdown_lines, current_speaker |-> current_speaker,
     current_text |-> current_text, current_start |-> current_start,
     current_end |-> current_end]

\* the locals of the older copy after the items the newer copy has consumed
LegacyLocals ==
    LegacyRenderItems(EmptyRun, SubSeq(items, 1, idx - 1),
                      BuildSpeakerTimeline(<<>>, segments))

\* C28: the older and the newer convert_to_markdown agree step by step. After
\* every item the two have the same lines and the same run, the two guards
\* decide the same at every point (the `is not None` tests of the newer copy
\* never decide), the final lines are the same and the document written to
\* transcript.md is the same.
RendererCopiesAgree ==
    /\ pc = "items" =>
           /\ Locals = LegacyLocals
           /\ ShouldFlush(current_speaker, current_text, current_start, current_end)
                  <=> LegacyShouldFlush(current_speaker, current_text)
    /\ pc \in {"write", "done"} => markdown_lines = LegacyRenderLines(items, segments)
    /\ Finished =>
           fs[markdown_file] = Some(LegacyDocument(LegacyRenderLines(items, segments)))

\* both copies have written two lines and left an unattributed run out
CopiesWroteTwoLines ==
    /\ Finished
    /\ Len(items) = 3
    /\ \E k \in 1..3 : items[k].type = "pronunciation"
                         /\ FindSpeaker(speaker_timeline, items[k].start_time) = None
    /\ Len(LegacyRenderLines(items, segments)) = 2
    /\ fs[markdown_file] = Some(LegacyDocument(markdown_lines))
====
